---- MODULE Spec2Model ----
(***************************************************************************)
(* Widget identification engine of the Feedspace visual-QA suite.          *)
(*                                                                         *)
(* Part I models widgetDetector.js: the taxonomy tables, the config-side   *)
(* classifier identify(), the helpers getTypeId() and isSameType(), and    *)
(* the live-DOM classifier discover() with its evaluate/timeout race.      *)
(*                                                                         *)
(* JavaScript strings are TLA+ strings; TLC evaluates Len, SubSeq and \o   *)
(* on them, so every string function below is computed character by       *)
(* character as the JavaScript built-in computes it.                       *)
(***************************************************************************)
EXTENDS Integers, Sequences, FiniteSets, TLC

VARIABLES
    call,       \* the last synchronous call of the detector: operation, arguments, result
    dom,        \* the element handed to discover(), with its ancestors and children
    calls       \* the discover() calls made so far on dom, oldest first

vars == <<call, dom, calls>>

-----------------------------------------------------------------------------
(* JavaScript strings *)

CharAt(s, i) == SubSeq(s, i, i)

LowerAlphabet == "abcdefghijklmnopqrstuvwxyz"

UpperAlphabet == "ABCDEFGHIJKLMNOPQRSTUVWXYZ"

Digits == "0123456789"

\* The 1-based position of character c in alphabet, 0 when it is not in it.
IndexIn(c, alphabet) ==
    IF \E i \in 1..Len(alphabet) : CharAt(alphabet, i) = c
    THEN CHOOSE i \in 1..Len(alphabet) : CharAt(alphabet, i) = c
    ELSE 0

\* s with each character that table lists replaced by what table gives for it.
MapChars(s, table) ==
    LET f(c) == IF c \in DOMAIN table THEN table[c] ELSE c
        F[lo \in 1..(Len(s) + 1), hi \in 0..Len(s)] ==
            IF lo > hi THEN ""
            ELSE IF lo = hi THEN f(CharAt(s, lo))
            ELSE F[lo, (lo + hi) \div 2] \o F[((lo + hi) \div 2) + 1, hi]
    IN  F[1, Len(s)]

LowerTable ==
    LET
        LowerChar(c) ==
            LET i == IndexIn(c, UpperAlphabet) IN IF i = 0 THEN c ELSE CharAt(LowerAlphabet, i)
    IN
        [c \in {CharAt(UpperAlphabet, i) : i \in 1..Len(UpperAlphabet)} |-> LowerChar(c)]

UpperTable ==
    LET
        UpperChar(c) ==
            LET i == IndexIn(c, LowerAlphabet) IN IF i = 0 THEN c ELSE CharAt(UpperAlphabet, i)
    IN
        [c \in {CharAt(LowerAlphabet, i) : i \in 1..Len(LowerAlphabet)} |-> UpperChar(c)]

toLowerCase(s) == MapChars(s, LowerTable)

toUpperCase(s) == MapChars(s, UpperTable)

\* s.replace(/[chars]/g, by): every character of s that is in chars becomes by.
replaceAll(s, chars, by) ==
    MapChars(s, [c \in chars |-> by])

\* s.replace(c, by) with a string pattern: only the first occurrence is replaced.
replaceFirst(s, c, by) ==
    IF \E i \in 1..Len(s) : CharAt(s, i) = c
    THEN LET i == CHOOSE k \in 1..Len(s) :
                      /\ CharAt(s, k) = c
                      /\ \A j \in 1..(k - 1) : CharAt(s, j) # c
         IN  SubSeq(s, 1, i - 1) \o by \o SubSeq(s, i + 1, Len(s))
    ELSE s

\* The characters the regular expression class \s and String.trim() treat as blank.
IsWhitespace(c) == c \in {" ", "\t", "\n", "\r", "\f"}

\* s.includes(sub)
includes(s, sub) ==
    \E i \in 1..(Len(s) - Len(sub) + 1) : SubSeq(s, i, i + Len(sub) - 1) = sub

\* parseInt(s, 10): leading blanks are skipped, one sign is accepted, then the
\* longest run of decimal digits is read and whatever follows is ignored; NaN
\* when no digit is read.
parseInt(s) ==
    LET n     == Len(s)
        start == IF \A i \in 1..n : IsWhitespace(CharAt(s, i))
                 THEN n + 1
                 ELSE CHOOSE i \in 1..n :
                          /\ ~IsWhitespace(CharAt(s, i))
                          /\ \A j \in 1..(i - 1) : IsWhitespace(CharAt(s, j))
        signed == start <= n /\ CharAt(s, start) \in {"+", "-"}
        neg    == signed /\ CharAt(s, start) = "-"
        from   == IF signed THEN start + 1 ELSE start
        IsDigitAt(i) == i <= n /\ IndexIn(CharAt(s, i), Digits) # 0
        stop   == IF \A i \in from..n : IsDigitAt(i)
                  THEN n + 1
                  ELSE CHOOSE i \in from..n :
                           /\ ~IsDigitAt(i)
                           /\ \A j \in from..(i - 1) : IsDigitAt(j)
        V[i \in (from - 1)..n] ==
            IF i < from THEN 0 ELSE V[i - 1] * 10 + (IndexIn(CharAt(s, i), Digits) - 1)
        magnitude == V[stop - 1]
    IN  IF stop = from
        THEN [nan |-> TRUE, n |-> 0, integer |-> FALSE]
        ELSE [nan |-> FALSE, n |-> IF neg THEN 0 - magnitude ELSE magnitude, integer |-> TRUE]

-----------------------------------------------------------------------------
(* JavaScript values, as far as a config field can hold them (JSON values    *)
(* and a missing field).  t is the typeof-like tag; s is the string content  *)
(* (for a non-string, what String(value) yields); n is the integer part of   *)
(* a number, whose fractional part is empty or ".5".                         *)

Undefined == [t |-> "undefined", s |-> "undefined", n |-> 0]

Null == [t |-> "null", s |-> "null", n |-> 0]

Str(s) == [t |-> "string", s |-> s, n |-> 0]

Num(n) == [t |-> "number", s |-> "", n |-> n]

Bool(b) == [t |-> "boolean", s |-> IF b THEN "true" ELSE "false", n |-> 0]

Obj == [t |-> "object", s |-> "[object Object]", n |-> 0]

\* A built-in function, named by s; two such values are the same function
\* exactly when they have the same name.
Fn(name) == [t |-> "function", s |-> name, n |-> 0]

\* A value used as a condition.
Truthy(v) ==
    CASE v.t \in {"undefined", "null"} -> FALSE
      [] v.t = "string"  -> v.s # ""
      [] v.t = "number"  -> ~(v.n = 0 /\ v.s = "")
      [] v.t = "boolean" -> v.s = "true"
      [] OTHER -> TRUE

IsNullish(v) == v.t \in {"undefined", "null"}

\* a ?? b
Coalesce(a, b) == IF IsNullish(a) THEN b ELSE a

-----------------------------------------------------------------------------
(* The taxonomy tables, entry by entry as the object literals list them *)

WidgetTypeConstants ==
    << [code |-> 4,  name |-> "CAROUSEL_SLIDER"],
       [code |-> 5,  name |-> "MASONRY"],
       [code |-> 6,  name |-> "MARQUEE_STRIPE"],
       [code |-> 7,  name |-> "AVATAR_GROUP"],
       [code |-> 8,  name |-> "SINGLE_SLIDER"],
       [code |-> 9,  name |-> "MARQUEE_UPDOWN"],
       [code |-> 10, name |-> "MARQUEE_LEFTRIGHT"],
       [code |-> 11, name |-> "FLOATING_TOAST"] >>

WidgetTypeNames_swapped ==
    << [name |-> "CAROUSEL_SLIDER",   code |-> 4],
       [name |-> "MASONRY",           code |-> 5],
       [name |-> "MARQUEE_STRIPE",    code |-> 6],
       [name |-> "AVATAR_GROUP",      code |-> 7],
       [name |-> "SINGLE_SLIDER",     code |-> 8],
       [name |-> "MARQUEE_UPDOWN",    code |-> 10],
       [name |-> "MARQUEE_LEFTRIGHT", code |-> 9],
       [name |-> "FLOATING_TOAST",    code |-> 11] >>

WidgetTypeNames ==
    << [name |-> "CAROUSEL_SLIDER",   code |-> 4],
       [name |-> "MASONRY",           code |-> 5],
       [name |-> "MARQUEE_STRIPE",    code |-> 6],
       [name |-> "AVATAR_GROUP",      code |-> 7],
       [name |-> "SINGLE_SLIDER",     code |-> 8],
       [name |-> "MARQUEE_UPDOWN",    code |-> 9],
       [name |-> "MARQUEE_LEFTRIGHT", code |-> 10],
       [name |-> "FLOATING_TOAST",    code |-> 11] >>

WidgetAliases ==
    << [alias |-> "stripslider",      name |-> "MARQUEE_STRIPE"],
       [alias |-> "strip_slider",     name |-> "MARQUEE_STRIPE"],
       [alias |-> "marqueeslider",    name |-> "MARQUEE_STRIPE"],
       [alias |-> "carouselslider",   name |-> "CAROUSEL_SLIDER"],
       [alias |-> "carousel",         name |-> "CAROUSEL_SLIDER"],
       [alias |-> "singleslider",     name |-> "SINGLE_SLIDER"],
       [alias |-> "marqueeupdown",    name |-> "MARQUEE_UPDOWN"],
       [alias |-> "marqueeuptown",    name |-> "MARQUEE_UPDOWN"],
       [alias |-> "marqueeleftright", name |-> "MARQUEE_LEFTRIGHT"],
       [alias |-> "floatingtoast",    name |-> "FLOATING_TOAST"],
       [alias |-> "avatargroup",      name |-> "AVATAR_GROUP"],
       [alias |-> "masonry",          name |-> "MASONRY"],
       [alias |-> "marqueestripe",    name |-> "MARQUEE_STRIPE"] >>

\* The properties every object literal inherits from Object.prototype: a
\* lookup obj[key] with such a key and no own property yields the inherited
\* value, which is truthy and is no string.
ObjectPrototype ==
    << [key |-> "constructor",          value |-> Fn("Object")],
       [key |-> "toString",             value |-> Fn("toString")],
       [key |-> "toLocaleString",       value |-> Fn("toLocaleString")],
       [key |-> "valueOf",              value |-> Fn("valueOf")],
       [key |-> "hasOwnProperty",       value |-> Fn("hasOwnProperty")],
       [key |-> "isPrototypeOf",        value |-> Fn("isPrototypeOf")],
       [key |-> "propertyIsEnumerable", value |-> Fn("propertyIsEnumerable")],
       [key |-> "__proto__",            value |-> Obj] >>

Inherited(key) ==
    IF \E i \in 1..Len(ObjectPrototype) : ObjectPrototype[i].key = key
    THEN ObjectPrototype[CHOOSE i \in 1..Len(ObjectPrototype) : ObjectPrototype[i].key = key].value
    ELSE Undefined

\* The last index of a non-empty set of entry indices: in an object literal
\* the last entry of a key is the one that counts.
LastOf(hits) == CHOOSE i \in hits : \A j \in hits : j <= i

\* WidgetTypeConstants[numericId] for a number: the property key of a number
\* is its decimal form, so only an integer can name an entry.
ConstantOf(numericId) ==
    LET hits == {i \in 1..Len(WidgetTypeConstants) :
                    numericId.integer /\ WidgetTypeConstants[i].code = numericId.n}
    IN  IF hits = {} THEN Undefined ELSE Str(WidgetTypeConstants[LastOf(hits)].name)

\* WidgetAliases[key]
AliasOf(key) ==
    LET hits == {i \in 1..Len(WidgetAliases) : WidgetAliases[i].alias = key}
    IN  IF hits = {} THEN Inherited(key) ELSE Str(WidgetAliases[LastOf(hits)].name)

\* WidgetTypeNames[key]
TypeNameOf(key) ==
    LET hits == {i \in 1..Len(WidgetTypeNames) : WidgetTypeNames[i].name = key}
    IN  IF hits = {} THEN Inherited(key) ELSE Num(WidgetTypeNames[LastOf(hits)].code)

-----------------------------------------------------------------------------
(* WidgetDetector: the config-side classifier and its helpers *)

\* raw.toLowerCase().replace(/[_\- ]/g, '')
normalize_caseSensitive(s) == replaceAll(s, {"_", "-", " "}, "")

normalize(s) == replaceAll(toLowerCase(s), {"_", "-", " "}, "")

\* raw.toUpperCase().replace(/[- ]/g, '_')
upperName(s) == replaceAll(toUpperCase(s), {"-", " "}, "_")

\* typeof raw === 'number' ? raw : parseInt(raw, 10); parseInt converts its
\* argument to a string first.
numericIdOf_numberOnly(raw) ==
    IF raw.t = "number"
    THEN [nan |-> FALSE, n |-> raw.n, integer |-> raw.s = ""]
    ELSE [nan |-> TRUE, n |-> 0, integer |-> FALSE]

numericIdOf(raw) ==
    IF raw.t = "number"
    THEN [nan |-> FALSE, n |-> raw.n, integer |-> raw.s = ""]
    ELSE parseInt(raw.s)

Unknown == Str("Unknown")

\* A config is null or an object with the fields widget_type_id and type,
\* either of which may be missing (Undefined).
NullConfig == [isNull |-> TRUE, widget_type_id |-> Undefined, type |-> Undefined]

Config(id, type) == [isNull |-> FALSE, widget_type_id |-> id, type |-> type]

identify(config) ==
    IF config.isNull THEN Unknown
    ELSE
    LET raw == Coalesce(config.widget_type_id, config.type) IN
    IF IsNullish(raw) THEN Unknown
    ELSE
    LET numericId == numericIdOf(raw) IN
    IF ~numericId.nan /\ Truthy(ConstantOf(numericId)) THEN ConstantOf(numericId)
    ELSE IF raw.t = "string"
    THEN LET normalized == normalize(raw.s)
             upperRaw   == upperName(raw.s)
         IN  IF Truthy(AliasOf(normalized)) THEN AliasOf(normalized)
             ELSE IF TypeNameOf(upperRaw) # Undefined THEN Str(upperRaw)
             ELSE Unknown
    ELSE Unknown

\* The result of a call: the value returned, or that the call threw.
Returned(v) == [threw |-> FALSE, value |-> v]

Threw == [threw |-> TRUE, value |-> Undefined]

\* A property key made from a value: String(value).
KeyOf(v) == IF v.t = "function" THEN "function " \o v.s \o "() { [native code] }" ELSE v.s

\* getTypeId: typeName.toLowerCase() exists only on a string.
getTypeId(typeName) ==
    IF ~Truthy(typeName) THEN Returned(Null)
    ELSE IF typeName.t # "string" THEN Threw
    ELSE
    LET normalized == normalize(typeName.s)
        resolved   == IF Truthy(AliasOf(normalized))
                      THEN AliasOf(normalized)
                      ELSE Str(upperName(typeName.s))
    IN  Returned(Coalesce(TypeNameOf(KeyOf(resolved)), Null))

\* The resolve closure of isSameType.
resolve_noAlias(t) ==
    IF ~Truthy(t) THEN Returned(Null)
    ELSE IF t.t # "string" THEN Threw
    ELSE Returned(Str(upperName(t.s)))

resolve(t) ==
    IF ~Truthy(t) THEN Returned(Null)
    ELSE IF t.t # "string" THEN Threw
    ELSE
    LET n == normalize(t.s)
    IN  Returned(IF Truthy(AliasOf(n)) THEN AliasOf(n) ELSE Str(upperName(t.s)))

isSameType(typeA, typeB) ==
    IF resolve(typeA).threw \/ resolve(typeB).threw THEN Threw
    ELSE Returned(Bool(resolve(typeA).value = resolve(typeB).value))

-----------------------------------------------------------------------------
(* The arguments the detector is called with *)

\* Numeric codes are probed from -MaxCode to MaxCode; the taxonomy is 4..11.
MaxCode == 13

\* String(n) of an integer.
NumToString(n) ==
    LET D[k \in Nat] ==
            IF k < 10 THEN CharAt(Digits, k + 1)
            ELSE D[k \div 10] \o CharAt(Digits, (k % 10) + 1)
    IN  IF n < 0 THEN "-" \o D[0 - n] ELSE D[n]

Codes == {WidgetTypeConstants[i].code : i \in 1..Len(WidgetTypeConstants)}

CanonicalNames == {WidgetTypeConstants[i].name : i \in 1..Len(WidgetTypeConstants)}

AliasKeys == {WidgetAliases[i].alias : i \in 1..Len(WidgetAliases)}

-----------------------------------------------------------------------------
(* The synchronous operations leave the page alone *)

NoElement == [tagName |-> "none"]

-----------------------------------------------------------------------------------------------------------------------------------------------------
(* Specification of the synchronous operations.  A behaviour is one call:    *)
(* Init draws the operation and its arguments, the action runs it and        *)
(* records the result in call.                                               *)

Pending(op, config, typeA, typeB) ==
    [op |-> op, config |-> config, typeA |-> typeA, typeB |-> typeB,
     done |-> FALSE, result |-> Returned(Undefined)]

Identify ==
    /\ call.op = "identify" /\ ~call.done
    /\ call' = [call EXCEPT !.done = TRUE, !.result = Returned(identify(call.config))]
    /\ UNCHANGED <<dom, calls>>

GetTypeId ==
    /\ call.op = "getTypeId" /\ ~call.done
    /\ call' = [call EXCEPT !.done = TRUE, !.result = getTypeId(call.typeA)]
    /\ UNCHANGED <<dom, calls>>

IsSameType ==
    /\ call.op = "isSameType" /\ ~call.done
    /\ call' = [call EXCEPT !.done = TRUE, !.result = isSameType(call.typeA, call.typeB)]
    /\ UNCHANGED <<dom, calls>>

Init ==
    LET
        NameStrings ==
            LET
                \* The spellings of a name the two naming systems use: other case, other separators.
                Spellings(s) ==
                    {s, toUpperCase(s), toLowerCase(s), replaceFirst(s, "_", "-"), replaceAll(s, {"_"}, " ")}
            IN
                UNION {Spellings(s) : s \in AliasKeys \cup CanonicalNames}

        OtherStrings ==
            {"", " ", "Unknown", "unknown", "Widget Not Found", "Error", "slider", "marquee",
             "strip slider x", "carousel_sliderwrap", "constructor", "Constructor",
             "CONSTRUCTOR", "con_structor", "toString", "valueOf", "hasOwnProperty", "__proto__"}
    IN
        LET
            Values ==
                LET
                    Arr(s) == [t |-> "array", s |-> s, n |-> 0]
                IN
                    LET
                        Half(n) == [t |-> "number", s |-> ".5", n |-> n]

                        NumericStrings ==
                            {NumToString(n) : n \in (0 - MaxCode)..MaxCode}
                                \cup {"4f3a", " 7", "+5", "7.9", "011", "6 ", "9abc", "1e1", "x4"}

                        TypeStrings == NameStrings \cup NumericStrings \cup OtherStrings
                    IN
                        {Undefined, Null, Bool(TRUE), Bool(FALSE), Obj, Arr(""), Arr("6"), Arr("4,5")}
                            \cup {Num(n) : n \in (0 - MaxCode)..MaxCode}
                            \cup {Half(n) : n \in Codes}
                            \cup {Str(s) : s \in TypeStrings}

            \* What getTypeId and isSameType are handed: a type string, or nothing, or
            \* whatever discover returned.
            TypeArgs ==
                {Undefined, Null, Fn("Object")}
                    \cup {Str(s) : s \in NameStrings \cup OtherStrings}
        IN
            LET
                Configs ==
                    {NullConfig}
                        \cup {Config(id, v) : id \in {Undefined, Null}, v \in Values}
                        \cup {Config(v, type) : v \in Values, type \in {Undefined, Str("MASONRY"), Num(5)}}

                PendingCalls ==
                    {Pending("identify", config, Undefined, Undefined) : config \in Configs}
                        \cup {Pending("getTypeId", NullConfig, typeName, Undefined) : typeName \in TypeArgs}
                        \cup {Pending("isSameType", NullConfig, typeA, typeB) :
                                  typeA \in TypeArgs, typeB \in TypeArgs}
            IN
                /\ call \in PendingCalls
                /\ dom = NoElement
                /\ calls = << >>

Next ==
    \/ Identify
    \/ GetTypeId
    \/ IsSameType

Spec == Init /\ [][Next]_vars

-----------------------------------------------------------------------------
(* Properties of the synchronous operations, checked under Spec *)

\* The field identify() reads: widget_type_id if present, otherwise type.
IdentifyDone == call.op = "identify" /\ call.done /\ ~call.config.isNull

TypeField ==
    IF call.config.widget_type_id \notin {Undefined, Null}
    THEN call.config.widget_type_id
    ELSE call.config.type

\* C1: for every config whose type field (widget_type_id if present, otherwise
\* type) is a number or a decimal string equal to a code of the taxonomy,
\* identify returns exactly the canonical name mapped to that code; for every
\* integer code outside the taxonomy it returns 'Unknown'.
C1_IdentifyNumericCodes ==
    IdentifyDone =>
        /\ ~call.result.threw
        /\ \A i \in 1..Len(WidgetTypeConstants) :
               TypeField \in {Num(WidgetTypeConstants[i].code),
                              Str(NumToString(WidgetTypeConstants[i].code))}
                   => call.result.value = Str(WidgetTypeConstants[i].name)
        /\ (/\ TypeField.t = "number"
            /\ TypeField.s = ""
            /\ \A i \in 1..Len(WidgetTypeConstants) : WidgetTypeConstants[i].code # TypeField.n)
               => call.result.value = Str("Unknown")

\* The decimal string "6" in the type field was identified as MARQUEE_STRIPE,
\* and an integer outside the taxonomy as 'Unknown'.
C1_Witness ==
    /\ IdentifyDone
    /\ call.config.widget_type_id = Undefined
    /\ call.config.type = Str("6")
    /\ call.result.value = Str("MARQUEE_STRIPE")

\* C2: for every alias of the alias table, identify of the alias, of the alias
\* upper-cased and of the alias with '_' replaced by '-' (or by a space) all
\* return the canonical name the table gives the alias.
C2_AliasSpellings ==
    (IdentifyDone /\ TypeField.t = "string") =>
        \A i \in 1..Len(WidgetAliases) :
            LET alias == WidgetAliases[i].alias IN
            TypeField.s \in {alias, toUpperCase(alias), replaceFirst(alias, "_", "-"),
                             replaceFirst(alias, "_", " ")}
                => call.result.value = Str(WidgetAliases[i].name)

\* The alias strip_slider, upper-cased, was identified as MARQUEE_STRIPE.
C2_Witness ==
    /\ IdentifyDone
    /\ TypeField = Str("STRIP_SLIDER")
    /\ call.result.value = Str("MARQUEE_STRIPE")

\* C3: isSameType is reflexive and symmetric, and for all pairs drawn from the
\* canonical names and the aliases it is true exactly when both resolve to
\* the same canonical name.
C3_IsSameType ==
    LET IsText(v) == v.t \in {"string", "undefined", "null"}
        Listed == CanonicalNames \cup AliasKeys
        Canonical(s) ==
            IF s \in CanonicalNames THEN s
            ELSE WidgetAliases[CHOOSE i \in 1..Len(WidgetAliases) :
                                   WidgetAliases[i].alias = s].name
    IN  (call.op = "isSameType" /\ call.done /\ IsText(call.typeA) /\ IsText(call.typeB)) =>
            /\ ~call.result.threw
            /\ call.typeA = call.typeB => call.result.value = Bool(TRUE)
            /\ call.result = isSameType(call.typeB, call.typeA)
            /\ (/\ call.typeA.t = "string" /\ call.typeA.s \in Listed
                /\ call.typeB.t = "string" /\ call.typeB.s \in Listed)
                   => (call.result.value = Bool(TRUE)
                          <=> Canonical(call.typeA.s) = Canonical(call.typeB.s))

\* The backend name MARQUEE_STRIPE and its frontend synonym strip_slider were
\* compared and found the same type.
C3_Witness ==
    /\ call.op = "isSameType" /\ call.done
    /\ call.typeA = Str("MARQUEE_STRIPE")
    /\ call.typeB = Str("strip_slider")
    /\ call.result = Returned(Bool(TRUE))

\* C4: identify is total into the closed taxonomy: for every input it returns
\* without throwing, and the value returned is one of the 8 canonical variant
\* names or 'Unknown'.
C4_IdentifyClosed ==
    (call.op = "identify" /\ call.done) =>
        /\ ~call.result.threw
        /\ call.result.value \in {Str(name) : name \in CanonicalNames \cup {"Unknown"}}

\* C10: the code-to-name mapping is a bijection between the 8 codes and the 8
\* canonical names (getTypeId(name of code c) = c and name of getTypeId(n) = n),
\* and every alias key maps to exactly one canonical name of the taxonomy.
C10_TaxonomyBijection ==
    /\ Len(WidgetTypeConstants) = 8
    /\ Cardinality(Codes) = 8
    /\ Cardinality(CanonicalNames) = 8
    /\ \A i, j \in 1..Len(WidgetAliases) :
           WidgetAliases[i].alias = WidgetAliases[j].alias
               => WidgetAliases[i].name = WidgetAliases[j].name
    /\ \A i \in 1..Len(WidgetAliases) : WidgetAliases[i].name \in CanonicalNames
    /\ (call.op = "getTypeId" /\ call.done) =>
           \A i \in 1..Len(WidgetTypeConstants) :
               call.typeA = Str(WidgetTypeConstants[i].name)
                   => /\ call.result = Returned(Num(WidgetTypeConstants[i].code))
                      /\ ConstantOf([nan |-> FALSE, n |-> call.result.value.n,
                                     integer |-> TRUE]) = call.typeA

\* getTypeId of the canonical name MARQUEE_LEFTRIGHT returned its code, 10.
C10_Witness ==
    /\ call.op = "getTypeId" /\ call.done
    /\ call.typeA = Str("MARQUEE_LEFTRIGHT")
    /\ call.result = Returned(Num(10))

\* C34: a value goes through the numeric path only when the whole value is a
\* code: identify of a config whose type field is a string that starts with a
\* digit and holds a letter (an opaque id such as '4f3a') returns 'Unknown'.
C34_WholeValueNumeric ==
    (/\ IdentifyDone
     /\ TypeField.t = "string"
     /\ Len(TypeField.s) > 1
     /\ IndexIn(CharAt(TypeField.s, 1), Digits) # 0
     /\ \E i \in 2..Len(TypeField.s) : IndexIn(CharAt(TypeField.s, i), LowerAlphabet) # 0)
        => call.result = Returned(Unknown)

-----------------------------------------------------------------------------
(* The live DOM, as far as the function evaluated in the page reads it.      *)
(* An element has a tag name, the five identifying attributes (Null when the *)
(* attribute is absent), a class attribute and text content.  The page is    *)
(* the element discover() is called on, its ancestors below <body> (parent   *)
(* first), its children in document order, and, for an iframe, the framed    *)
(* document.                                                                 *)

\* The identifying attributes, in the order getAttr reads them.
AttrNames ==
    <<"data-widget-type", "widget_type_id", "data-type", "data-feedspace-type", "data-id">>

NoAttrs == [a \in {AttrNames[i] : i \in 1..Len(AttrNames)} |-> Null]

Element(tagName, attrs, className, text) ==
    [tagName |-> tagName, attrs |-> attrs, className |-> className, text |-> text]

\* elements.querySelector(selector), over a list in document order: the list
\* of the first match, or the empty list.
FirstMatch(elements, matching) ==
    IF matching # {}
    THEN << elements[CHOOSE i \in matching : \A j \in matching : i <= j] >>
    ELSE << >>

\* The whitespace-separated tokens of a class attribute, as classList holds them.
ClassList(className) ==
    LET n == Len(className)
        Blank(i) == i < 1 \/ i > n \/ IsWhitespace(CharAt(className, i))
        starts == {i \in 1..n : ~Blank(i) /\ Blank(i - 1)}
        EndOf(i) == CHOOSE j \in i..n : Blank(j + 1) /\ \A k \in i..j : ~Blank(k)
    IN  {SubSeq(className, i, EndOf(i)) : i \in starts}

\* Array.slice(0, 5) of the children.
ChildLimit == 5

\* substring(0, 800) of the inner HTML.
SnippetLimit == 800

\* The function discover() evaluates in the page.
evaluate(page) ==
    LET
        getAttr(element) ==
            LET
                \* a || b || ... : the first truthy operand, or the last one.
                OrChain(values) ==
                    IF \E i \in 1..Len(values) : Truthy(values[i])
                    THEN values[CHOOSE i \in 1..Len(values) :
                                    Truthy(values[i]) /\ \A j \in 1..(i - 1) : ~Truthy(values[j])]
                    ELSE values[Len(values)]
            IN
                OrChain([i \in 1..Len(AttrNames) |-> element.attrs[AttrNames[i]]])

        \* [data-widget-type], [widget_type_id], [data-type], [data-feedspace-type], [data-id]:
        \* the selector matches an element that carries one of the attributes, empty or not.
        MatchesAttrSelector(element) ==
            \E i \in 1..Len(AttrNames) : element.attrs[AttrNames[i]] # Null
    IN
        LET
            \* Step 1: the upward search, from the element to the last ancestor below <body>.
            SearchUp(p) ==
                LET chain == <<p.el>> \o p.ancestors
                    ids   == [i \in 1..Len(chain) |-> getAttr(chain[i])]
                IN  IF \E i \in 1..Len(ids) : Truthy(ids[i])
                    THEN ids[CHOOSE i \in 1..Len(ids) : Truthy(ids[i]) /\ \A j \in 1..(i - 1) : ~Truthy(ids[j])]
                    ELSE ids[Len(ids)]

            \* Step 2: an iframe's document, when it can be reached; a cross-origin frame
            \* throws and the error is ignored.
            SearchFrame(p, id) ==
                IF ~Truthy(id) /\ toLowerCase(p.el.tagName) = "iframe" /\ p.frame.origin = "same"
                THEN LET innerWidget == FirstMatch(p.frame.elements,
                                                      {i \in 1..Len(p.frame.elements) :
                                                          MatchesAttrSelector(p.frame.elements[i])})
                     IN  IF innerWidget # << >> THEN getAttr(innerWidget[1]) ELSE id
                ELSE id

            \* Step 3: the downward search.
            SearchDown(p, id) ==
                IF ~Truthy(id)
                THEN LET child == FirstMatch(p.children,
                                                {i \in 1..Len(p.children) :
                                                    MatchesAttrSelector(p.children[i])})
                     IN  IF child # << >> THEN getAttr(child[1]) ELSE id
                ELSE id

            \* Step 4: the anchor check.
            IsFeedspaceAnchor(p) ==
                LET
                    \* The inner-box classes of the anchor check.
                    AnchorClasses ==
                        {"feedspace-element-feed-box-wrap", "fe-review-card", "feedspace-element-inner",
                         "feedspace-element-grid"}
                IN
                    \/ \E i \in 1..Len(p.children) : ClassList(p.children[i].className) \cap AnchorClasses # {}
                    \/ "feedspace-embed" \in ClassList(p.el.className)
                    \/ "feedspace-widget" \in ClassList(p.el.className)

            InnerHTML(p) ==
                LET
                    \* element.innerHTML of a parent: its children serialized in document order.
                    OuterHTML(element) ==
                        LET A[i \in 0..Len(AttrNames)] ==
                                IF i = 0 THEN ""
                                ELSE A[i - 1] \o
                                     (IF element.attrs[AttrNames[i]] = Null THEN ""
                                      ELSE " " \o AttrNames[i] \o "=\"" \o element.attrs[AttrNames[i]].s \o "\"")
                        IN  "<" \o element.tagName
                                \o (IF element.className = "" THEN "" ELSE " class=\"" \o element.className \o "\"")
                                \o A[Len(AttrNames)] \o ">" \o element.text \o "</" \o element.tagName \o ">"
                IN
                    LET H[i \in 0..Len(p.children)] ==
                            IF i = 0 THEN p.el.text ELSE H[i - 1] \o OuterHTML(p.children[i])
                    IN  H[Len(p.children)]
        IN
            LET
                \* s.substring(0, n)
                substring0(s, n) == SubSeq(s, 1, IF n < Len(s) THEN n ELSE Len(s))

                \* s.trim()
                trim(s) ==
                    IF \A i \in 1..Len(s) : IsWhitespace(CharAt(s, i))
                    THEN ""
                    ELSE LET first == CHOOSE i \in 1..Len(s) :
                                          /\ ~IsWhitespace(CharAt(s, i))
                                          /\ \A j \in 1..(i - 1) : IsWhitespace(CharAt(s, j))
                             last  == CHOOSE i \in 1..Len(s) :
                                          /\ ~IsWhitespace(CharAt(s, i))
                                          /\ \A j \in (i + 1)..Len(s) : IsWhitespace(CharAt(s, j))
                         IN  SubSeq(s, first, last)

                \* strings.join(' ')
                Join(strings) ==
                    LET J[i \in 0..Len(strings)] ==
                            IF i = 0 THEN ""
                            ELSE IF i = 1 THEN strings[1]
                            ELSE J[i - 1] \o " " \o strings[i]
                    IN  J[Len(strings)]
            IN
                LET id             == SearchDown(page, SearchFrame(page, SearchUp(page)))
                    ownClasses     == page.el.className
                    parentClasses  == IF page.ancestors # << >> THEN page.ancestors[1].className ELSE ""
                    firstChildren  == SubSeq(page.children, 1,
                                             IF Len(page.children) < ChildLimit
                                             THEN Len(page.children) ELSE ChildLimit)
                    childClasses   == Join([i \in 1..Len(firstChildren) |-> firstChildren[i].className])
                IN  [idAttr            |-> id,
                     allClasses        |-> trim(toLowerCase(parentClasses \o " " \o ownClasses \o " " \o childClasses)),
                     htmlSnippet       |-> substring0(toLowerCase(InnerHTML(page)), SnippetLimit),
                     isFeedspaceAnchor |-> IsFeedspaceAnchor(page)]

-----------------------------------------------------------------------------
(* WidgetDetector.discover: the classification cascade *)

CSS_SIGNATURES ==
    << [classes |-> <<"feedspace-vertical-scroll", "feedspace-updown", "vertical-marquee">>,
        type |-> "MARQUEE_UPDOWN"],
       [classes |-> <<"fe-feedspace-avatar-group-widget-wrap", "feedspace-avatar-group">>,
        type |-> "AVATAR_GROUP"],
       [classes |-> <<"feedspace-carousel-widget", "testimonial-slider", "carousel_slider">>,
        type |-> "CAROUSEL_SLIDER"],
       [classes |-> <<"feedspace-marque-main-wrap", "strip-slider">>,
        type |-> "MARQUEE_STRIPE"],
       [classes |-> <<"feedspace-floating-widget", "fe-floating-toast", "fe-toast-card",
                      "fe-chat-bubble">>,
        type |-> "FLOATING_TOAST"],
       [classes |-> <<"feedspace-element-horizontal-scroll-widget",
                      "feedspace-left-right-shadow">>,
        type |-> "MARQUEE_LEFTRIGHT"],
       [classes |-> <<"feedspace-single-review-widget", "single-slider",
                      "feedspace-single-slider">>,
        type |-> "SINGLE_SLIDER"],
       [classes |-> <<"fe-masonry", "feedspace-masonry", "masonry-widget">>,
        type |-> "MASONRY"] >>

\* new RegExp(`(^|\\s)${token}(\\s|$)`).test(classString), for a token of
\* literal characters (letters, digits, '-', '_'), as all signature tokens are.
hasClass_substring(classString, token) == includes(classString, token)

hasClass(classString, token) ==
    \E i \in 1..(Len(classString) - Len(token) + 1) :
        /\ SubSeq(classString, i, i + Len(token) - 1) = token
        /\ i = 1 \/ IsWhitespace(CharAt(classString, i - 1))
        /\ i + Len(token) - 1 = Len(classString)
               \/ IsWhitespace(CharAt(classString, i + Len(token)))

\* What one tier of the cascade yields: a value to return, or nothing.
Hit(value) == [hit |-> TRUE, value |-> value]

Miss == [hit |-> FALSE, value |-> Undefined]

\* Priority 1: the identifying attribute, numeric or by name.
attributeTier(info) ==
    IF IsNullish(info.idAttr) THEN Miss
    ELSE
    LET numericId      == parseInt(info.idAttr.s)
        normalizedAttr == normalize(info.idAttr.s)
        upperAttr      == upperName(info.idAttr.s)
    IN  IF ~numericId.nan /\ Truthy(ConstantOf(numericId)) THEN Hit(ConstantOf(numericId))
        ELSE IF Truthy(AliasOf(normalizedAttr)) THEN Hit(AliasOf(normalizedAttr))
        ELSE IF TypeNameOf(upperAttr) # Undefined THEN Hit(Str(upperAttr))
        ELSE Miss

\* Priority 2: the first signature, in table order, one of whose tokens is a class.
signatureTier(info) ==
    LET Matches(signature) ==
            \E k \in 1..Len(signature.classes) : hasClass(info.allClasses, signature.classes[k])
        found == FirstMatch(CSS_SIGNATURES,
                            {i \in 1..Len(CSS_SIGNATURES) : Matches(CSS_SIGNATURES[i])})
    IN  IF found # << >> THEN Hit(Str(found[1].type)) ELSE Miss

\* Priority 3: the keyword guess for an element that looks like a Feedspace
\* widget; it always returns.
anchorTier(info) ==
    LET html == info.htmlSnippet
    IN  IF includes(html, "vertical-scroll") \/ includes(html, "updown")
        THEN Hit(Str("MARQUEE_UPDOWN"))
        ELSE IF includes(html, "horizontal-scroll") \/ includes(html, "left-right")
        THEN Hit(Str("MARQUEE_LEFTRIGHT"))
        ELSE IF includes(html, "carousel") THEN Hit(Str("CAROUSEL_SLIDER"))
        ELSE IF includes(html, "strip-slider") THEN Hit(Str("MARQUEE_STRIPE"))
        ELSE Hit(Str("MARQUEE_UPDOWN"))

\* Priority 4: the keywords of the HTML snippet.
snippetTier(info) ==
    LET html == info.htmlSnippet
    IN  IF includes(html, "feedspace-vertical-scroll") \/ includes(html, "updown")
        THEN Hit(Str("MARQUEE_UPDOWN"))
        ELSE IF includes(html, "feedspace-marque") \/ includes(html, "strip-slider")
        THEN Hit(Str("MARQUEE_STRIPE"))
        ELSE IF includes(html, "carousel") THEN Hit(Str("CAROUSEL_SLIDER"))
        ELSE IF includes(html, "masonry") THEN Hit(Str("MASONRY"))
        ELSE IF includes(html, "floating-toast") \/ includes(html, "fe-toast")
        THEN Hit(Str("FLOATING_TOAST"))
        ELSE IF includes(html, "horizontal-scroll") \/ includes(html, "left-right")
        THEN Hit(Str("MARQUEE_LEFTRIGHT"))
        ELSE IF includes(html, "single-slider") \/ includes(html, "single-review")
        THEN Hit(Str("SINGLE_SLIDER"))
        ELSE IF includes(html, "avatar-group") THEN Hit(Str("AVATAR_GROUP"))
        ELSE Miss

\* The outcome of the cascade: the value returned, the tier whose return
\* statement produced it (0 for the final return 'Unknown') and the tiers
\* whose conditions were evaluated on the way.
Decided(value, tier, consulted) == [value |-> value, tier |-> tier, consulted |-> consulted]

\* The cascade with the signature tier ahead of the attribute tier.
classify_signatureFirst(info) ==
    IF signatureTier(info).hit THEN Decided(signatureTier(info).value, 2, {2})
    ELSE IF attributeTier(info).hit THEN Decided(attributeTier(info).value, 1, {2, 1})
    ELSE IF info.isFeedspaceAnchor THEN Decided(anchorTier(info).value, 3, {2, 1, 3})
    ELSE IF snippetTier(info).hit THEN Decided(snippetTier(info).value, 4, {2, 1, 3, 4})
    ELSE Decided(Unknown, 0, {2, 1, 3, 4})

\* The cascade without the anchor condition in front of the keyword guess.
classify_noAnchorGuard(info) ==
    IF attributeTier(info).hit THEN Decided(attributeTier(info).value, 1, {1})
    ELSE IF signatureTier(info).hit THEN Decided(signatureTier(info).value, 2, {1, 2})
    ELSE Decided(anchorTier(info).value, 3, {1, 2, 3})

\* The cascade with assignments in place of the return statements: every
\* tier is evaluated and the last hit is returned.
classify_lastHitWins(info) ==
    IF snippetTier(info).hit THEN Decided(snippetTier(info).value, 4, {1, 2, 3, 4})
    ELSE IF info.isFeedspaceAnchor THEN Decided(anchorTier(info).value, 3, {1, 2, 3, 4})
    ELSE IF signatureTier(info).hit THEN Decided(signatureTier(info).value, 2, {1, 2, 3, 4})
    ELSE IF attributeTier(info).hit THEN Decided(attributeTier(info).value, 1, {1, 2, 3, 4})
    ELSE Decided(Unknown, 0, {1, 2, 3, 4})

classify(info) ==
    IF attributeTier(info).hit THEN Decided(attributeTier(info).value, 1, {1})
    ELSE IF signatureTier(info).hit THEN Decided(signatureTier(info).value, 2, {1, 2})
    ELSE IF info.isFeedspaceAnchor THEN Decided(anchorTier(info).value, 3, {1, 2, 3})
    ELSE IF snippetTier(info).hit THEN Decided(snippetTier(info).value, 4, {1, 2, 3, 4})
    ELSE Decided(Unknown, 0, {1, 2, 3, 4})

-----------------------------------------------------------------------------
(* The pages discover() is tried on *)

Div(attrs, className, text) == Element("div", attrs, className, text)

NoFrame == [origin |-> "none", elements |-> << >>]

Page(el, ancestors, children, frame) ==
    [el |-> el, ancestors |-> ancestors, children |-> children, frame |-> frame]

-----------------------------------------------------------------------------------------------------------------------------------------------------
(* WidgetDetector.discover as a process.  A call starts the evaluation in    *)
(* the page and a timer, and awaits their race.  The evaluation resolves or  *)
(* rejects at any time, or never; TimerFire is the moment the timer's delay  *)
(* has elapsed.  The first of the two to settle decides the call; the other  *)
(* one may still settle afterwards.  Calls on a locator are made one at a    *)
(* time.                                                                     *)

\* How many calls of discover() a behaviour makes.
MaxCalls == 2

\* The delay of the timer, in milliseconds.
TimeoutMs == 5000

\* The catch block: warn and return 'Unknown'.
DiscoverCatch_rethrow(c, winner) ==
    [c EXCEPT !.race = winner, !.status = "threw"]

DiscoverCatch(c, winner) ==
    [c EXCEPT !.race = winner, !.status = "returned", !.value = Unknown]

\* A race in which a later event overrides the one that decided it.
Settle_lastWins(c, decided) == decided

\* Promise.race settles with the first of its promises to settle; the
\* reactions it attached to the other promise find it settled and do nothing.
Settle(c, decided) == IF c.race = "pending" THEN decided ELSE c

Discover ==
    LET
        NoInfo == [idAttr |-> Null, allClasses |-> "", htmlSnippet |-> "", isFeedspaceAnchor |-> FALSE]
    IN
        LET
            \* if (!locator) return 'Unknown'
            NoLocatorCall ==
                [locator |-> "null", evaluate |-> "none", timer |-> "none", delay |-> 0,
                 race |-> "none", status |-> "returned", info |-> NoInfo,
                 value |-> Unknown, tier |-> 0, consulted |-> {}]

            AwaitingCall ==
                [locator |-> "element", evaluate |-> "pending", timer |-> "armed", delay |-> TimeoutMs,
                 race |-> "pending", status |-> "awaiting", info |-> NoInfo,
                 value |-> Undefined, tier |-> 0, consulted |-> {}]

            Idle == \A k \in 1..Len(calls) : calls[k].status # "awaiting"
        IN
            /\ Len(calls) < MaxCalls
            /\ Idle
            /\ \E c \in {NoLocatorCall, AwaitingCall} : calls' = Append(calls, c)
            /\ UNCHANGED <<call, dom>>

EvaluateResolve ==
    LET
        \* The code after the await, for the info the evaluation resolved with.
        DiscoverClassify(c, info) ==
            LET outcome == classify(info)
            IN  [c EXCEPT !.race = "evaluate", !.status = "returned", !.info = info,
                          !.value = outcome.value, !.tier = outcome.tier,
                          !.consulted = outcome.consulted]
    IN
        /\ \E k \in 1..Len(calls) :
               /\ calls[k].evaluate = "pending"
               /\ calls' = [calls EXCEPT ![k] =
                               [Settle(calls[k], DiscoverClassify(calls[k], evaluate(dom)))
                                    EXCEPT !.evaluate = "resolved"]]
        /\ UNCHANGED <<call, dom>>

EvaluateReject ==
    /\ \E k \in 1..Len(calls) :
           /\ calls[k].evaluate = "pending"
           /\ calls' = [calls EXCEPT ![k] =
                           [Settle(calls[k], DiscoverCatch(calls[k], "rejected"))
                                EXCEPT !.evaluate = "rejected"]]
    /\ UNCHANGED <<call, dom>>

TimerFire ==
    /\ \E k \in 1..Len(calls) :
           /\ calls[k].timer = "armed"
           /\ calls' = [calls EXCEPT ![k] =
                           [Settle(calls[k], DiscoverCatch(calls[k], "timer"))
                                EXCEPT !.timer = "fired"]]
    /\ UNCHANGED <<call, dom>>

InitDiscover ==
    LET
        Pages ==
            LET
                Attr(name, value) == [NoAttrs EXCEPT ![name] = Str(value)]
            IN
                LET
                    \* s repeated n times.
                    Repeat(s, n) ==
                        LET R[i \in 0..n] == IF i = 0 THEN "" ELSE R[i - 1] \o s IN R[n]

                    \* n children without class, attribute or text of interest.
                    Padding(n) == [i \in 1..n |-> Div(NoAttrs, "spacer", "")]

                    OwnAttrs ==
                        {NoAttrs,
                         Attr("data-widget-type", "6"),
                         Attr("data-type", "strip_slider"),
                         Attr("data-feedspace-type", "Marquee-UpDown"),
                         Attr("data-id", "4f3a"),
                         Attr("data-id", "a81f"),
                         Attr("data-id", ""),
                         Attr("data-id", "constructor"),
                         [Attr("data-id", "carousel") EXCEPT !["data-widget-type"] = Str("")]}

                    OwnClasses ==
                        {"", "feedspace-embed", "foo carousel_slider bar", "carousel_sliderwrap",
                         "Feedspace-Marque-Main-Wrap", "wrap\tsingle-slider", "feedspace-widget fe-masonry"}

                    ChildLists ==
                        {<< >>,
                         <<Div(NoAttrs, "fe-review-card", "great product")>>,
                         <<Div(NoAttrs, "quote", "my Carousel story")>>,
                         <<Div(NoAttrs, "feedspace-floating-widget", "")>>,
                         <<Div(Attr("data-type", "11"), "x", "")>>,
                         <<Div(NoAttrs, "feedspace-element-inner", "scrolls left-right")>>,
                         Padding(ChildLimit - 1) \o <<Div(NoAttrs, "fe-masonry", "")>>,
                         Padding(ChildLimit) \o <<Div(NoAttrs, "fe-masonry", "")>>,
                         <<Div(NoAttrs, "note", Repeat("lorem ipsum ", 70) \o "avatar-group")>>}

                    \* The element alone, with every combination of attribute and class.
                    BarePages ==
                        {Page(Div(attrs, className, ""), << >>, << >>, NoFrame) :
                            attrs \in OwnAttrs, className \in OwnClasses}

                    \* The element with children, under an attribute that resolves, one that does
                    \* not, or none, and a class that is a signature token, an anchor class or none.
                    ParentPages ==
                        {Page(Div(attrs, className, ""), << >>, children, NoFrame) :
                            attrs \in {NoAttrs, Attr("data-widget-type", "6"), Attr("data-id", "a81f")},
                            className \in {"", "feedspace-embed", "foo carousel_slider bar"},
                            children \in ChildLists}

                    \* The element below ancestors that carry an attribute or a class.
                    NestedPages ==
                        {Page(Div(attrs, className, ""), <<Div(parentAttrs, parentClass, "")>> \o above,
                              << >>, NoFrame) :
                            attrs \in {NoAttrs, Attr("data-id", "a81f"), Attr("data-type", "masonry")},
                            className \in {"", "testimonial-slider"},
                            parentAttrs \in {NoAttrs, Attr("widget_type_id", "7")},
                            parentClass \in {"", "feedspace-left-right-shadow extra"},
                            above \in {<< >>, <<Div(Attr("data-widget-type", "9"), "", "")>>}}

                    \* An iframe: of another origin, or of the same origin with or without a
                    \* marked widget in its document.
                    FramePages ==
                        {Page(Element(tagName, attrs, className, ""), << >>, << >>, frame) :
                            tagName \in {"iframe", "IFRAME"},
                            attrs \in {NoAttrs, Attr("data-id", "")},
                            className \in {"", "feedspace-embed"},
                            frame \in {[origin |-> "cross", elements |-> << >>],
                                       [origin |-> "same", elements |-> << >>],
                                       [origin |-> "same",
                                        elements |-> <<Div(NoAttrs, "inner", ""),
                                                       Div(Attr("data-widget-type", "avatar_group"), "", "")>>]}}
                IN
                    BarePages \cup ParentPages \cup NestedPages \cup FramePages
    IN
        /\ call = [Pending("none", NullConfig, Undefined, Undefined) EXCEPT !.done = TRUE]
        /\ dom \in Pages
        /\ calls = << >>

NextDiscover ==
    \/ Discover
    \/ EvaluateResolve
    \/ EvaluateReject
    \/ TimerFire

SpecDiscover == InitDiscover /\ [][NextDiscover]_vars

-----------------------------------------------------------------------------
(* Properties of discover, checked under SpecDiscover *)

\* C5: a DOM evaluation that does not settle before the 5 s timer fires, or
\* that rejects, makes discover return 'Unknown'; discover never propagates
\* the timeout or the evaluation error to its caller.
C5_DiscoverDegrades ==
    \A k \in 1..Len(calls) :
        /\ calls[k].status # "threw"
        /\ calls[k].race \in {"timer", "rejected"}
               => calls[k].status = "returned" /\ calls[k].value = Str("Unknown")
        /\ (calls[k].timer = "fired" /\ calls[k].evaluate = "pending")
               => calls[k].status = "returned" /\ calls[k].value = Str("Unknown")

\* One call lost the race to the timer while its evaluation was still
\* pending, another had its evaluation rejected; both returned 'Unknown'.
C5_Witness ==
    \E i, j \in 1..Len(calls) :
        /\ calls[i].race = "timer" /\ calls[i].evaluate = "pending"
        /\ calls[i].delay = TimeoutMs
        /\ calls[j].race = "rejected"
        /\ calls[i].status = "returned" /\ calls[i].value = Str("Unknown")
        /\ calls[j].status = "returned" /\ calls[j].value = Str("Unknown")

\* C6: the tiers are consulted in a fixed priority order and the first that
\* resolves decides: an identifying attribute that resolves (as identify
\* resolves a type string) determines the variant whatever the class tokens
\* and the HTML are, and otherwise the first signature of the table with a
\* token among the class tokens determines it whatever the anchor heuristic
\* and the keywords are.
C6_TierPriority ==
    \A k \in 1..Len(calls) :
        calls[k].race = "evaluate" =>
            LET info     == calls[k].info
                byAttr   == identify(Config(Undefined, info.idAttr))
                resolves == ~IsNullish(info.idAttr) /\ byAttr # Str("Unknown")
                tokens   == ClassList(info.allClasses)
                Listed(signature) ==
                    \E c \in 1..Len(signature.classes) : signature.classes[c] \in tokens
                first    == FirstMatch(CSS_SIGNATURES,
                                       {i \in 1..Len(CSS_SIGNATURES) : Listed(CSS_SIGNATURES[i])})
            IN  /\ resolves => calls[k].value = byAttr /\ calls[k].tier = 1
                /\ (~resolves /\ first # << >>)
                       => calls[k].value = Str(first[1].type) /\ calls[k].tier = 2
                /\ (~resolves /\ first = << >>) => calls[k].tier \notin {1, 2}

\* An attribute that resolves decided a call although a class signature of
\* another variant matched and the HTML held a keyword.
C6_Witness ==
    \E k \in 1..Len(calls) :
        /\ calls[k].race = "evaluate"
        /\ calls[k].tier = 1
        /\ calls[k].value = Str("MARQUEE_STRIPE")
        /\ signatureTier(calls[k].info) = Hit(Str("CAROUSEL_SLIDER"))
        /\ snippetTier(calls[k].info).hit

\* C7 as stated: when no identifying attribute resolves, no class-signature
\* token matches and the anchor heuristic is false, discover returns 'Unknown'.
C7_UnknownWithoutAnchor ==
    \A k \in 1..Len(calls) :
        calls[k].race = "evaluate" =>
            LET info     == calls[k].info
                byAttr   == identify(Config(Undefined, info.idAttr))
                resolves == ~IsNullish(info.idAttr) /\ byAttr # Str("Unknown")
                tokens   == ClassList(info.allClasses)
                matches  == \E s \in 1..Len(CSS_SIGNATURES) :
                                \E c \in 1..Len(CSS_SIGNATURES[s].classes) :
                                    CSS_SIGNATURES[s].classes[c] \in tokens
            IN  (~resolves /\ ~matches /\ ~info.isFeedspaceAnchor)
                    => calls[k].value = Str("Unknown")

\* C7, amended: when no identifying attribute resolves, no class-signature
\* token matches, the anchor heuristic is false and the HTML snippet holds
\* none of the keywords of the snippet fallback, discover returns 'Unknown'.
C7_UnknownWithoutKeyword ==
    \A k \in 1..Len(calls) :
        calls[k].race = "evaluate" =>
            LET info     == calls[k].info
                byAttr   == identify(Config(Undefined, info.idAttr))
                resolves == ~IsNullish(info.idAttr) /\ byAttr # Str("Unknown")
                tokens   == ClassList(info.allClasses)
                matches  == \E s \in 1..Len(CSS_SIGNATURES) :
                                \E c \in 1..Len(CSS_SIGNATURES[s].classes) :
                                    CSS_SIGNATURES[s].classes[c] \in tokens
                keywords == {"feedspace-vertical-scroll", "updown", "feedspace-marque",
                             "strip-slider", "carousel", "masonry", "floating-toast",
                             "fe-toast", "horizontal-scroll", "left-right",
                             "single-slider", "single-review", "avatar-group"}
                keyword  == \E w \in keywords : includes(info.htmlSnippet, w)
            IN  (~resolves /\ ~matches /\ ~info.isFeedspaceAnchor /\ ~keyword)
                    => calls[k].value = Str("Unknown")

\* A call fell through all four tiers on an element with an opaque data-id,
\* a class that only contains a signature token as a substring, and no
\* anchor class, and returned 'Unknown'.
C7_Witness ==
    \E k \in 1..Len(calls) :
        /\ calls[k].race = "evaluate"
        /\ calls[k].info.idAttr = Str("a81f")
        /\ calls[k].info.allClasses = "carousel_sliderwrap"
        /\ ~calls[k].info.isFeedspaceAnchor
        /\ calls[k].consulted = {1, 2, 3, 4}
        /\ calls[k].value = Str("Unknown")

\* C8: CSS signatures are matched by exact whitespace-delimited class token,
\* never by substring: a signature token matches a class string iff it is one
\* of its whitespace-separated tokens, so 'carousel_sliderwrap' does not match
\* the token 'carousel_slider' while 'foo carousel_slider bar' does.
C8_ExactTokenMatch ==
    /\ ~hasClass("carousel_sliderwrap", "carousel_slider")
    /\ hasClass("foo carousel_slider bar", "carousel_slider")
    /\ \A k \in 1..Len(calls) :
           calls[k].race = "evaluate" =>
               LET classes == calls[k].info.allClasses
                   tokens  == ClassList(classes)
               IN  /\ \A s \in 1..Len(CSS_SIGNATURES) :
                          \A c \in 1..Len(CSS_SIGNATURES[s].classes) :
                              hasClass(classes, CSS_SIGNATURES[s].classes[c])
                                  <=> CSS_SIGNATURES[s].classes[c] \in tokens
                   /\ calls[k].tier = 2 =>
                          \E s \in 1..Len(CSS_SIGNATURES) :
                              /\ calls[k].value = Str(CSS_SIGNATURES[s].type)
                              /\ \E c \in 1..Len(CSS_SIGNATURES[s].classes) :
                                     CSS_SIGNATURES[s].classes[c] \in tokens

\* The signature tier was consulted on the class string 'carousel_sliderwrap'
\* and did not match it.
C8_Witness ==
    \E k \in 1..Len(calls) :
        /\ calls[k].race = "evaluate"
        /\ calls[k].info.allClasses = "carousel_sliderwrap"
        /\ 2 \in calls[k].consulted
        /\ calls[k].tier # 2

\* C9 as stated: for a fixed DOM snapshot, repeated calls of discover on the
\* same element return the same variant, and exactly one tier of the cascade
\* produces the result (no later tier is consulted after a hit).
C9_RepeatedCallsAgree ==
    /\ \A i, j \in 1..Len(calls) :
           (/\ calls[i].locator = "element" /\ calls[i].status = "returned"
            /\ calls[j].locator = "element" /\ calls[j].status = "returned")
               => calls[i].value = calls[j].value
    /\ \A k \in 1..Len(calls) :
           (calls[k].race = "evaluate" /\ calls[k].tier # 0)
               => \A t \in calls[k].consulted : t <= calls[k].tier

\* C9, amended: for a fixed DOM snapshot, repeated calls of discover on the
\* same element whose evaluation settles before the timer return the same
\* variant, produced by the same tier; the producing tier is the last one
\* consulted and every tier consulted before it missed.
C9_SettledCallsAgree ==
    /\ \A i, j \in 1..Len(calls) :
           (calls[i].race = "evaluate" /\ calls[j].race = "evaluate")
               => /\ calls[i].info = calls[j].info
                  /\ calls[i].value = calls[j].value
                  /\ calls[i].tier = calls[j].tier
    /\ \A k \in 1..Len(calls) :
           calls[k].race = "evaluate" =>
               LET info == calls[k].info
                   HitAt(t) == CASE t = 1 -> attributeTier(info).hit
                                 [] t = 2 -> signatureTier(info).hit
                                 [] t = 3 -> info.isFeedspaceAnchor
                                 [] t = 4 -> snippetTier(info).hit
               IN  /\ calls[k].tier \in {0, 1, 2, 3, 4}
                   /\ calls[k].tier # 0 =>
                          /\ calls[k].consulted = 1..calls[k].tier
                          /\ HitAt(calls[k].tier)
                   /\ calls[k].tier = 0 => calls[k].consulted = 1..4
                   /\ \A t \in calls[k].consulted : t # calls[k].tier => ~HitAt(t)

\* Two calls whose evaluation settled returned the same variant from the
\* signature tier, on a snapshot whose HTML also held a keyword that a later
\* tier would have turned into another variant.
C9_Witness ==
    \E i, j \in 1..Len(calls) :
        /\ i # j
        /\ calls[i].race = "evaluate" /\ calls[j].race = "evaluate"
        /\ calls[i].tier = 2 /\ calls[i].consulted = {1, 2}
        /\ calls[i].value = calls[j].value
        /\ snippetTier(calls[i].info).hit
        /\ snippetTier(calls[i].info).value # calls[i].value

\* C38: exactly one of the two racing events decides a call of discover.
\* Once a call is decided, no later event changes what decided it, the
\* variant it returned or the tier that produced it, and no event makes a
\* call throw; an event of one call (the late firing of its timer, a late
\* result of its evaluation) changes nothing of any other call.  A call the
\* timer decided returned 'Unknown' whatever its evaluation brings later, and
\* a call the evaluation decided returned the variant of what it resolved with.
C38_OneEventDecides ==
    [][/\ \A k \in 1..Len(calls) :
              /\ calls[k].race # "pending" =>
                     /\ calls'[k].race = calls[k].race
                     /\ calls'[k].status = calls[k].status
                     /\ calls'[k].value = calls[k].value
                     /\ calls'[k].tier = calls[k].tier
                     /\ calls'[k].info = calls[k].info
              /\ calls'[k] # calls[k] =>
                     /\ Len(calls') = Len(calls)
                     /\ \A j \in 1..Len(calls) : j # k => calls'[j] = calls[j]
       /\ \A k \in 1..Len(calls') :
              /\ calls'[k].status # "threw"
              /\ calls'[k].race = "timer" =>
                     calls'[k].status = "returned" /\ calls'[k].value = Unknown
              /\ calls'[k].race = "evaluate" =>
                     /\ calls'[k].status = "returned"
                     /\ calls'[k].value = classify(calls'[k].info).value
              /\ calls'[k].race = "pending" =>
                     calls'[k].evaluate = "pending" /\ calls'[k].timer = "armed"]_vars

\* C38, the cases: a call was decided by its evaluation and returned a
\* variant, and its timer fired afterwards, while a later call had been
\* made; that later call was decided by its timer and returned 'Unknown', and
\* its evaluation resolved afterwards.
C38_Witness ==
    /\ Len(calls) = 2
    /\ calls[1].race = "evaluate" /\ calls[1].timer = "fired"
    /\ calls[1].status = "returned" /\ calls[1].value # Unknown
    /\ calls[2].race = "timer" /\ calls[2].evaluate = "resolved"
    /\ calls[2].status = "returned" /\ calls[2].value = Unknown

-----------------------------------------------------------------------------
(***************************************************************************)
(* Part II: aiEngine.js.  AIEngine.analyzeScreenshot sends the captures to *)
(* the external analysis and retries on a rate-limit failure.              *)
(*                                                                         *)
(* In the specifications of Parts II and III, call is the frame of the     *)
(* asynchronous method that is running (its arguments, its locals, the     *)
(* await it is parked on, and what it settled with), dom is the page as    *)
(* far as the method looks at it, and calls is the list of the calls the   *)
(* method has made to the outside so far, oldest first.                    *)
(***************************************************************************)

\* this.maxRetries
maxRetries == 5

\* this.initialDelay, in milliseconds
initialDelay == 5000

\* How many features a configuration lists at most.
MaxFeatures == 2

\* A value that is an array of features, or undefined.
NoList == [defined |-> FALSE, items |-> << >>]

\* A config argument: null, or an object with or without a features array.
NoConfig == [isNull |-> TRUE, features |-> NoList]

\* An entry of feature_results.
FeatureResult(feature, ui_status, config_status, scenario, status) ==
    [feature |-> feature, ui_status |-> ui_status, config_status |-> config_status,
     scenario |-> scenario, status |-> status]

\* What analyzeScreenshot resolves with: null, or an object.  A property the
\* object does not have is "" (hasFeatureResults tells an absent
\* feature_results from an empty one).
NullResult ==
    [isNull |-> TRUE, mock |-> FALSE, hasFeatureResults |-> FALSE, feature_results |-> << >>,
     overall_status |-> "", status |-> "", error |-> ""]

AiData(hasFeatureResults, feature_results, overall_status) ==
    [NullResult EXCEPT !.isNull = FALSE, !.hasFeatureResults = hasFeatureResults,
                       !.feature_results = feature_results,
                       !.overall_status = overall_status]

\* processResults: the overall status is recomputed from the entries.
processResults(aiData) ==
    IF aiData.isNull \/ ~aiData.hasFeatureResults
    THEN aiData
    ELSE LET hasFailures == \E i \in 1..Len(aiData.feature_results) :
                                aiData.feature_results[i].status = "FAIL"
         IN  [aiData EXCEPT !.overall_status = IF hasFailures THEN "FAIL" ELSE "PASS"]

\* getMockResult
getMockResult ==
    [AiData(TRUE,
            << FeatureResult("Left & Right Buttons", "Visible", "Visible", "Normal", "PASS"),
               FeatureResult("Slider Indicators", "Absent", "Visible",
                             "UI hidden but config says visible", "FAIL"),
               FeatureResult("Show Review Date", "Visible", "Visible", "Normal", "PASS"),
               FeatureResult("Show Review Ratings", "Visible", "Visible", "Normal", "PASS"),
               FeatureResult("Shorten Long Reviews / Read More", "Visible", "Visible",
                             "Normal", "PASS"),
               FeatureResult("Show Social Platform Icon", "Absent", "Visible",
                             "UI hidden but config says visible", "FAIL"),
               FeatureResult("Inline CTA", "Visible", "Visible", "Normal", "PASS"),
               FeatureResult("Feedspace Branding", "Absent", "Visible",
                             "Branding hidden visually", "PASS"),
               FeatureResult("Review Card Border & Shadow", "Visible", "Visible",
                             "Normal", "PASS") >>,
            "FAIL")
        EXCEPT !.mock = TRUE]

\* An error thrown in the try block; status is 0 when the error has none.
Error(message, status) == [message |-> message, status |-> status]

NoError == Error("", 0)

\* error.message.includes('429') || error.status === 429
isRateLimit_always(error) == TRUE

isRateLimit(error) == includes(error.message, "429") \/ error.status = 429

\* initialDelay * Math.pow(2, attempts - 1)
retryDelay_linear(attempts) == initialDelay * attempts

retryDelay(attempts) == initialDelay * 2 ^ (attempts - 1)

\* staticFeatures || (config && config.features) || []; an array is truthy
\* even when it is empty.
featuresOf(staticFeatures, config) ==
    IF staticFeatures.defined THEN staticFeatures.items
    ELSE IF ~config.isNull /\ config.features.defined THEN config.features.items
    ELSE << >>

\* How a promise settles.
Resolved(value) == [settled |-> "resolved", value |-> value, reason |-> ""]

Rejected(reason) == [settled |-> "rejected", value |-> NullResult, reason |-> reason]

Pending2 == [settled |-> "pending", value |-> NullResult, reason |-> ""]

\* The catch block once the error is not retried: features is computed, the
\* debug logging reads text, and the placeholder result is returned.
AnalyzeCatch(error, staticFeatures, config) ==
    LET
        \* One placeholder entry for each feature.
        fallbackResults(features) ==
            [i \in 1..Len(features) |->
                FeatureResult(IF features[i].t = "string" THEN features[i].s
                              ELSE IF features[i].s # "" THEN features[i].s ELSE "Unknown",
                              "N/A", "N/A", "AI Analysis Failed", "UNKNOWN")]
    IN
        LET
            \* The object the catch block returns.
            errorResult(err, features) ==
                [NullResult EXCEPT !.isNull = FALSE, !.hasFeatureResults = TRUE,
                                   !.feature_results = fallbackResults(features),
                                   !.status = "ERROR", !.error = err.message]

            \* The identifiers the catch block can read: the parameters, the locals of
            \* the function body, the catch parameter and the locals of the catch block.
            \* What the try block declares (prompt, imageParts, result, response, text,
            \* cleanText, aiResults) is local to the try block.
            CatchScope ==
                {"imageBuffers", "config", "widgetType", "staticFeatures", "buffers", "attempts",
                 "error", "isRateLimit", "delay", "features", "fallbackResults"}
        IN
            IF "text" \in CatchScope
            THEN Resolved(errorResult(error, featuresOf(staticFeatures, config)))
            ELSE Rejected("ReferenceError: text is not defined")

\* The calls analyzeScreenshot makes to the outside.
Made(op, attempt, ms, error) == [op |-> op, attempt |-> attempt, ms |-> ms, error |-> error]

Errors ==
    {Error("[GoogleGenerativeAI Error]: [429 Too Many Requests] Resource has been exhausted", 0),
     Error("Too Many Requests", 429),
     Error("[GoogleGenerativeAI Error]: [500 Internal Server Error]", 500),
     Error("Unexpected token < in JSON at position 0", 0)}

Payloads ==
    {NullResult,
     AiData(FALSE, << >>, "PASS"),
     AiData(TRUE, << FeatureResult("Inline CTA", "Visible", "Visible", "Normal", "PASS") >>, "FAIL"),
     AiData(TRUE, << FeatureResult("Inline CTA", "Absent", "Visible", "Hidden", "FAIL") >>, "PASS")}

\* The body of the while loop up to the await of generateContent.
SendAttempt(frame) ==
    [frame EXCEPT !.attempts = frame.attempts + 1, !.pc = "generateContent"]

\* analyzeScreenshot is called: without a key it returns the mock result,
\* with a key it enters the loop and sends the first request.
AnalyzeScreenshot ==
    /\ call.op = "analyzeScreenshot" /\ call.pc = "entry"
    /\ IF ~call.apiKey
       THEN /\ call' = [call EXCEPT !.pc = "settled", !.result = Resolved(getMockResult)]
            /\ UNCHANGED calls
       ELSE /\ call' = SendAttempt(call)
            /\ calls' = Append(calls, Made("generateContent", call.attempts + 1, 0, NoError))
    /\ UNCHANGED dom

\* The request resolves with a text that parses: the processed payload is returned.
ContentParsed ==
    /\ call.op = "analyzeScreenshot" /\ call.pc = "generateContent"
    /\ \E aiResults \in Payloads :
           call' = [call EXCEPT !.pc = "settled", !.result = Resolved(processResults(aiResults))]
    /\ UNCHANGED <<dom, calls>>

\* The request rejects, or the text of the response does not parse: the
\* catch block either arms the retry timer or ends the call.
ContentFailed ==
    /\ call.op = "analyzeScreenshot" /\ call.pc = "generateContent"
    /\ \E error \in Errors :
           IF isRateLimit(error) /\ call.attempts <= maxRetries
           THEN /\ call' = [call EXCEPT !.pc = "setTimeout"]
                /\ calls' = calls \o << Made("catch", call.attempts, 0, error),
                                        Made("setTimeout", call.attempts,
                                             retryDelay(call.attempts), NoError) >>
           ELSE /\ call' = [call EXCEPT !.pc = "settled",
                                        !.result = AnalyzeCatch(error, call.staticFeatures,
                                                                call.config)]
                /\ calls' = Append(calls, Made("catch", call.attempts, 0, error))
    /\ UNCHANGED dom

\* The retry timer fires: continue, the loop condition, the next request.
RetryTimerFired ==
    /\ call.op = "analyzeScreenshot" /\ call.pc = "setTimeout"
    /\ IF call.attempts <= maxRetries
       THEN /\ call' = SendAttempt(call)
            /\ calls' = Append(calls, Made("generateContent", call.attempts + 1, 0, NoError))
       ELSE /\ call' = [call EXCEPT !.pc = "settled", !.result = Resolved(NullResult)]
            /\ UNCHANGED calls
    /\ UNCHANGED dom

InitAnalyze ==
    LET
        \* An object of a feature list; name is "" when the object has no name.
        FeatureObject(name) == [t |-> "object", s |-> name, n |-> 0]

        List(items) == [defined |-> TRUE, items |-> items]

        FeatureConfig(features) == [isNull |-> FALSE, features |-> features]
    IN
        LET
            \* The frame of analyzeScreenshot.
            AnalyzeFrame(apiKey, staticFeatures, config) ==
                [op |-> "analyzeScreenshot", apiKey |-> apiKey, staticFeatures |-> staticFeatures,
                 config |-> config, pc |-> "entry", attempts |-> 0, result |-> Pending2]

            \* The inputs: feature lists, the errors of the try block, the parsed payloads.
            FeatureItems == {Str("Show Review Date"), FeatureObject("Inline CTA"), FeatureObject("")}

            FeatureLists ==
                {NoList} \cup {List(items) : items \in UNION {[1..n -> FeatureItems] : n \in 0..MaxFeatures}}

            AnalyzeConfigs == {NoConfig, FeatureConfig(NoList), FeatureConfig(List(<< Str("Show Review Date") >>))}
        IN
            /\ call \in {AnalyzeFrame(apiKey, staticFeatures, config) :
                             apiKey \in BOOLEAN, staticFeatures \in FeatureLists,
                             config \in AnalyzeConfigs}
            /\ dom = NoElement
            /\ calls = << >>

NextAnalyze ==
    \/ AnalyzeScreenshot
    \/ ContentParsed
    \/ ContentFailed
    \/ RetryTimerFired

SpecAnalyze == InitAnalyze /\ [][NextAnalyze]_vars

\* The same process under the scheduling of the event loop: a request that
\* was sent settles, and an armed timer fires.
FairAnalyze == SpecAnalyze /\ WF_vars(NextAnalyze)

-----------------------------------------------------------------------------
(* Claims about analyzeScreenshot *)

\* C13: the i-th retry of a rate-limited request is preceded by a wait of
\* base * 2^(i-1) (5s, 10s, 20s, ...); a call whose request failed twice with
\* the rate-limit signal and then succeeded has waited base + 2*base = 15s in
\* total, and a call whose last request succeeded returns the processed
\* payload, not an error record.
C13_BackoffDoubles ==
    call.op = "analyzeScreenshot" =>
        LET IsWait(m) == m.op = "setTimeout"
            waits == SelectSeq(calls, IsWait)
            Total[i \in 0..Len(waits)] == IF i = 0 THEN 0 ELSE Total[i - 1] + waits[i].ms
            succeeded == /\ call.pc = "settled"
                         /\ calls # << >>
                         /\ calls[Len(calls)].op = "generateContent"
        IN  /\ \A i \in 1..Len(waits) : waits[i].ms = 5000 * 2 ^ (i - 1)
            /\ Total[Len(waits)] = 5000 * (2 ^ Len(waits) - 1)
            /\ (succeeded /\ Len(waits) = 2) => Total[2] = 15000
            /\ succeeded =>
                   /\ call.result.settled = "resolved"
                   /\ call.result.value.status # "ERROR"
                   /\ \E payload \in Payloads : call.result.value = processResults(payload)

\* A call whose request failed three times with the rate-limit signal has
\* waited 5s, 10s and 20s, and returned the payload of the fourth request.
C13_Witness ==
    /\ call.op = "analyzeScreenshot" /\ call.pc = "settled"
    /\ call.attempts = 4
    /\ calls[Len(calls)].op = "generateContent"
    /\ call.result.settled = "resolved"
    /\ call.result.value.hasFeatureResults
    /\ \E i, j, k \in 1..Len(calls) :
           /\ i < j /\ j < k
           /\ calls[i].op = "setTimeout" /\ calls[i].ms = 5000
           /\ calls[j].op = "setTimeout" /\ calls[j].ms = 10000
           /\ calls[k].op = "setTimeout" /\ calls[k].ms = 20000

\* C14: a request after the first is sent only after a failure that carries
\* the rate-limit signal (429 in the message or as the status); a failure
\* without the signal ends the call; there are never more than 5 retries, 6
\* requests in all; and every call ends.
C14_RetryOnlyOnRateLimit ==
    /\ [](call.op = "analyzeScreenshot" =>
            LET IsRequest(m) == m.op = "generateContent"
                requests == SelectSeq(calls, IsRequest)
                HasSignal(e) == e.status = 429 \/ includes(e.message, "429")
            IN  /\ Len(requests) <= 1 + 5
                /\ call.attempts = Len(requests)
                /\ \A i \in 1..Len(calls) :
                       (calls[i].op = "generateContent" /\ calls[i].attempt > 1) =>
                           /\ i > 2
                           /\ calls[i - 2].op = "catch"
                           /\ HasSignal(calls[i - 2].error)
                           /\ calls[i - 1].op = "setTimeout"
                /\ \A i \in 1..Len(calls) :
                       (calls[i].op = "catch" /\ ~HasSignal(calls[i].error)) =>
                           /\ i = Len(calls)
                           /\ call.pc = "settled")
    /\ <>(call.op = "analyzeScreenshot" /\ call.pc = "settled")

\* A call that was rate-limited six times: five retries were made and the
\* sixth failure, although it carries the signal, ended the call.
C14_Witness ==
    /\ call.op = "analyzeScreenshot" /\ call.pc = "settled"
    /\ call.attempts = 6
    /\ calls[Len(calls)].op = "catch"
    /\ isRateLimit(calls[Len(calls)].error)

\* C15: a call whose request failed without the rate-limit signal, or failed
\* again after the last retry, does not throw: it returns a record of status
\* ERROR with one entry of status UNKNOWN for each configured feature.
C15_DegradesToErrorResult ==
    (/\ call.op = "analyzeScreenshot" /\ call.pc = "settled"
     /\ calls # << >>
     /\ calls[Len(calls)].op = "catch")
        => LET features == featuresOf(call.staticFeatures, call.config)
               value == call.result.value
           IN  /\ call.result.settled = "resolved"
               /\ value.status = "ERROR"
               /\ Len(value.feature_results) = Len(features)
               /\ \A i \in 1..Len(features) : value.feature_results[i].status = "UNKNOWN"

-----------------------------------------------------------------------------
(***************************************************************************)
(* Part III: playwrightHelper.js.  PlaywrightHelper.init navigates to the  *)
(* target with retries; validateWithAI finds the widget on the page,       *)
(* reconciles its variant with the expected one, collects the captures and *)
(* hands them to the analysis.                                             *)
(***************************************************************************)

\* const maxAttempts = 3
maxAttempts == 3

\* The delay between two navigation attempts, the delay after the embed
\* script was seen, and the timeouts of goto and of the two waits, in
\* milliseconds.
NavigationRetryMs == 5000

ScriptSettleMs == 2000

GotoTimeoutMs == 90000

LoadTimeoutMs == 30000

ResponseTimeoutMs == 15000

\* WidgetDetector.identify({ type: widgetTypeId }) || 'Unknown'
expectedTypeOf(widgetTypeId) ==
    LET identified == identify(Config(Undefined, widgetTypeId))
    IN  IF Truthy(identified) THEN identified ELSE Unknown

\* if (attempts >= maxAttempts) throw error
Rethrows_never(attempts) == FALSE

Rethrows(attempts) == attempts >= maxAttempts

WaitTimeout == Error("Timeout exceeded.", 0)

\* attempts++ and the call of page.goto
GotoAttempt(frame) == [frame EXCEPT !.attempts = frame.attempts + 1, !.pc = "goto"]

\* init is called: the expected type is stored and the first attempt starts.
PlaywrightHelperInit ==
    /\ call.op = "init" /\ call.pc = "entry"
    /\ call' = GotoAttempt([call EXCEPT !.expectedType = expectedTypeOf(call.widgetTypeId),
                                        !.widgetType = Unknown])
    /\ calls' = Append(calls, Made("goto", 1, GotoTimeoutMs, NoError))
    /\ UNCHANGED dom

\* page.goto resolves: the wait for the load state starts.
GotoResolved ==
    /\ call.op = "init" /\ call.pc = "goto"
    /\ call' = [call EXCEPT !.pc = "waitForLoadState"]
    /\ UNCHANGED <<dom, calls>>

\* page.goto rejects: the catch block rethrows after the last attempt, and
\* sleeps before another one otherwise.
GotoRejected ==
    LET
        \* The errors of a navigation and of the two waits.
        NavigationErrors ==
            {Error("page.goto: net::ERR_NAME_NOT_RESOLVED", 0),
             Error("page.goto: Timeout 90000ms exceeded.", 0)}
    IN
        /\ call.op = "init" /\ call.pc = "goto"
        /\ \E error \in NavigationErrors :
               IF Rethrows(call.attempts)
               THEN /\ call' = [call EXCEPT !.pc = "settled", !.result = Rejected(error.message)]
                    /\ calls' = Append(calls, Made("catch", call.attempts, 0, error))
               ELSE /\ call' = [call EXCEPT !.pc = "sleep"]
                    /\ calls' = calls \o << Made("catch", call.attempts, 0, error),
                                            Made("setTimeout", call.attempts,
                                                 NavigationRetryMs, NoError) >>
        /\ UNCHANGED dom

\* The sleep of the catch block ends: the loop condition, then the next
\* attempt or the end of the loop.
NavigationRetry ==
    /\ call.op = "init" /\ call.pc = "sleep"
    /\ IF call.attempts < maxAttempts
       THEN /\ call' = GotoAttempt(call)
            /\ calls' = Append(calls, Made("goto", call.attempts + 1, GotoTimeoutMs, NoError))
       ELSE /\ call' = [call EXCEPT !.pc = "settled", !.result = Resolved(NullResult)]
            /\ UNCHANGED calls
    /\ UNCHANGED dom

\* waitForLoadState('load') resolves, or times out and the error is logged:
\* either way the wait for the embed script starts.
LoadStateSettled ==
    /\ call.op = "init" /\ call.pc = "waitForLoadState"
    /\ \E outcome \in {NoError, WaitTimeout} :
           calls' = Append(calls, Made("waitForLoadState", call.attempts, LoadTimeoutMs, outcome))
    /\ call' = [call EXCEPT !.pc = "waitForResponse"]
    /\ UNCHANGED dom

\* _waitForFeedspaceScript: the response of the embed script is seen and the
\* settle delay starts.
ResponseSeen ==
    /\ call.op = "init" /\ call.pc = "waitForResponse"
    /\ call' = [call EXCEPT !.pc = "settle"]
    /\ calls' = calls \o << Made("waitForResponse", call.attempts, ResponseTimeoutMs, NoError),
                            Made("setTimeout", call.attempts, ScriptSettleMs, NoError) >>
    /\ UNCHANGED dom

\* _waitForFeedspaceScript: no response in time; the error is logged and init
\* returns.
ResponseTimedOut ==
    /\ call.op = "init" /\ call.pc = "waitForResponse"
    /\ call' = [call EXCEPT !.pc = "settled", !.result = Resolved(NullResult)]
    /\ calls' = Append(calls, Made("waitForResponse", call.attempts, ResponseTimeoutMs,
                                   WaitTimeout))
    /\ UNCHANGED dom

\* The settle delay ends and init returns.
ScriptSettled ==
    /\ call.op = "init" /\ call.pc = "settle"
    /\ call' = [call EXCEPT !.pc = "settled", !.result = Resolved(NullResult)]
    /\ UNCHANGED <<dom, calls>>

InitNavigate ==
    LET
        \* The widget type ids init is called with.
        WidgetTypeIds ==
            {Num(n) : n \in 3..12}
                \cup {Str("7"), Str("stripslider"), Str("Carousel Slider"), Str("constructor"),
                      Str("banner"), Undefined, Null}

        \* The frame of init.
        InitFrame(widgetTypeId) ==
            [op |-> "init", widgetTypeId |-> widgetTypeId, expectedType |-> Unknown,
             widgetType |-> Unknown, pc |-> "entry", attempts |-> 0, result |-> Pending2]
    IN
        /\ call \in {InitFrame(widgetTypeId) : widgetTypeId \in WidgetTypeIds}
        /\ dom = NoElement
        /\ calls = << >>

NextNavigate ==
    \/ PlaywrightHelperInit
    \/ GotoResolved
    \/ GotoRejected
    \/ NavigationRetry
    \/ LoadStateSettled
    \/ ResponseSeen
    \/ ResponseTimedOut
    \/ ScriptSettled

SpecNavigate == InitNavigate /\ [][NextNavigate]_vars

-----------------------------------------------------------------------------
(* Claims about init *)

\* C16: init navigates at most 3 times; a navigation that succeeds is the
\* last one and init returns; a failure before the third attempt is followed
\* by a sleep of 5s and another attempt; the third failure is thrown to the
\* caller; a timeout of the wait for the load state or for the embed script
\* is followed neither by another attempt nor by a failure.
C16_NavigationRetries ==
    call.op = "init" =>
        LET IsGoto(m) == m.op = "goto"
            n == Len(calls)
        IN  /\ Len(SelectSeq(calls, IsGoto)) <= 3
            /\ \A i \in 1..n :
                   calls[i].op = "goto" =>
                       \* the attempt is pending, or failed, or succeeded for good
                       \/ i = n /\ call.pc \in {"goto", "waitForLoadState"}
                       \/ i < n /\ calls[i + 1].op = "catch"
                       \/ /\ i < n /\ calls[i + 1].op = "waitForLoadState"
                          /\ \A j \in (i + 1)..n : calls[j].op \notin {"goto", "catch"}
                          /\ call.result.settled # "rejected"
            /\ \A i \in 1..n :
                   calls[i].op = "catch" =>
                       IF calls[i].attempt < 3
                       THEN /\ i < n
                            /\ calls[i + 1] = Made("setTimeout", calls[i].attempt, 5000, NoError)
                            /\ \/ i + 1 = n /\ call.pc = "sleep"
                               \/ i + 1 < n /\ calls[i + 2].op = "goto"
                       ELSE /\ i = n
                            /\ call.pc = "settled"
                            /\ call.result = Rejected(calls[i].error.message)
            /\ \A i \in 1..n :
                   (calls[i].op \in {"waitForLoadState", "waitForResponse"}
                        /\ calls[i].error # NoError) =>
                       /\ \A j \in i..n : calls[j].op \notin {"goto", "catch"}
                       /\ call.result.settled # "rejected"
            /\ call.result.settled = "resolved" =>
                   \E i \in 1..n : calls[i].op = "goto" /\ i < n
                                       /\ calls[i + 1].op = "waitForLoadState"

\* The third attempt succeeded after two failures and two sleeps of 5s, both
\* waits after it timed out, and init returned.
C16_Witness ==
    /\ call.op = "init" /\ call.pc = "settled"
    /\ call.attempts = 3
    /\ call.result.settled = "resolved"
    /\ Len(calls) = 9
    /\ calls[2].op = "catch" /\ calls[3].ms = 5000
    /\ calls[5].op = "catch" /\ calls[6].ms = 5000
    /\ calls[8] = Made("waitForLoadState", 3, LoadTimeoutMs, WaitTimeout)
    /\ calls[9] = Made("waitForResponse", 3, ResponseTimeoutMs, WaitTimeout)

-----------------------------------------------------------------------------
(* PlaywrightHelper.validateWithAI and _finalizeAnalysis.  dom is the page: *)
(* whether it was closed, and its elements in document order, each with the  *)
(* part of the document discover() looks at and whether it is visible.  The  *)
(* elements carry a class and the identifying attributes, no id and no src.  *)

\* What a call of discover() on an element returns: the variant of the
\* cascade when the evaluation settles in time on an open page, 'Unknown'
\* when it times out or rejects.
DiscoverOutcomes(element, closed) ==
    IF closed THEN {Unknown} ELSE {classify(evaluate(element.page)).value, Unknown}

TypeMatch(expected, detected, matched, reason) ==
    [isNull |-> FALSE, expected |-> expected, detected |-> detected, matched |-> matched,
     reason |-> reason]

\* movementVerification
NoMovement == [isNull |-> TRUE, status |-> "", message |-> ""]

\* What validateWithAI resolves with.
Bundle(expectedType, widgetType, typeMatchResult, aiAnalysis, movementVerification, screenshotPaths) ==
    [expectedType |-> expectedType, widgetType |-> widgetType,
     typeMatchResult |-> typeMatchResult, aiAnalysis |-> aiAnalysis,
     movementVerification |-> movementVerification, screenshotPaths |-> screenshotPaths]

\* _buildErrorResult
buildErrorResult(frame, reason) ==
    Bundle(frame.expectedType, Str("Error"),
           TypeMatch(frame.expectedType, Str("Error"), FALSE, reason),
           NullResult, NoMovement, << >>)

\* A dispatch that hands a masonry wall to the strip helper.
StrategyOf_masonryAsStrip(normalizedType) ==
    CASE normalizedType = "AVATAR_GROUP" -> "AvatarGroupHelper"
      [] normalizedType = "FLOATING_TOAST" -> "FloatingToastHelper"
      [] normalizedType = "CAROUSEL_SLIDER" -> "CarouselSliderHelper"
      [] normalizedType \in {"MARQUEE_STRIPE", "STRIP_SLIDER", "SINGLE_SLIDER", "MASONRY"} -> "StripSliderHelper"
      [] normalizedType = "MARQUEE_UPDOWN" -> "VerticalScrollHelper"
      [] normalizedType = "MARQUEE_LEFTRIGHT" -> "HorizontalScrollHelper"
      [] OTHER -> "none"

\* The helper the dispatch of step 6 hands the widget to.
StrategyOf(normalizedType) ==
    CASE normalizedType = "AVATAR_GROUP" -> "AvatarGroupHelper"
      [] normalizedType = "FLOATING_TOAST" -> "FloatingToastHelper"
      [] normalizedType = "CAROUSEL_SLIDER" -> "CarouselSliderHelper"
      [] normalizedType \in {"MARQUEE_STRIPE", "STRIP_SLIDER", "SINGLE_SLIDER"} -> "StripSliderHelper"
      [] normalizedType = "MARQUEE_UPDOWN" -> "VerticalScrollHelper"
      [] normalizedType = "MARQUEE_LEFTRIGHT" -> "HorizontalScrollHelper"
      [] OTHER -> "none"

\* A call validateWithAI made: the operation, the part of the method that
\* made it, the element it was made on (0 for the page), and what came back
\* (the variant of a discover and whether the loop took the candidate,
\* whether a capture or a step succeeded, the images handed to the analysis).
Did(op, phase, target, type, ok, images) ==
    [op |-> op, phase |-> phase, target |-> target, type |-> type, ok |-> ok,
     images |-> images]

\* The candidate is selected: the loop is left with locator and detectedType set.
Selected(frame, candidate, discovered) ==
    [frame EXCEPT !.locator = candidate, !.detectedType = discovered, !.pc = "reconcile"]

\* The end of an iteration of a scan that did not select: the next candidate,
\* or the code after the loop.
NextCandidate(frame, after) ==
    IF frame.index < Len(frame.candidates)
    THEN [frame EXCEPT !.index = frame.index + 1]
    ELSE [frame EXCEPT !.index = 0, !.pc = after]

\* The branch of count === 0 up to its capture: the verdict 'Widget Not Found'
\* and the type mismatch are recorded.
NotFound_verdictOnly(frame) ==
    [frame EXCEPT !.widgetType = Str("Widget Not Found"), !.pc = "notFoundShot"]

NotFound(frame) ==
    [frame EXCEPT
         !.widgetType = Str("Widget Not Found"),
         !.typeMatchResult =
             TypeMatch(frame.expectedType, Str("Widget Not Found"), FALSE,
                       "No Feedspace widget selectors found on the page"),
         !.pc = "notFoundShot"]

\* One iteration of the precision scan: a candidate of the expected type is
\* selected and the loop is left, any other is passed over.
ScanStep_noBreak(frame, candidate, discovered, same) ==
    LET taken == IF same
                 THEN [frame EXCEPT !.locator = candidate, !.detectedType = discovered]
                 ELSE frame
    IN  NextCandidate(taken, IF taken.locator # 0 THEN "reconcile" ELSE "fallback")

ScanStep(frame, candidate, discovered, same) ==
    IF same THEN Selected(frame, candidate, discovered)
    ELSE NextCandidate(frame, "fallback")

\* One iteration of the fallback loop: a visible candidate is selected
\* whatever it was classified as, a hidden one is passed over.
FallbackStep_firstAttached(frame, candidate, discovered, visible) ==
    Selected(frame, candidate, discovered)

FallbackStep(frame, candidate, discovered, visible) ==
    IF visible THEN Selected(frame, candidate, discovered)
    ELSE NextCandidate(frame, "first")

\* Steps 7 and 8 up to the next await: the default capture of the element when
\* there is no capture yet, else the full-page context capture on an open page.
AfterStrategy_noDefault(frame, closed) ==
    IF ~closed THEN [frame EXCEPT !.pc = "contextShot"]
    ELSE [frame EXCEPT !.pc = "finalize"]

AfterStrategy_noContext(frame, closed) ==
    IF frame.screenshotBuffers = << >> THEN [frame EXCEPT !.pc = "elementShot"]
    ELSE [frame EXCEPT !.pc = "finalize"]

AfterStrategy(frame, closed) ==
    IF frame.screenshotBuffers = << >> THEN [frame EXCEPT !.pc = "elementShot"]
    ELSE IF ~closed THEN [frame EXCEPT !.pc = "contextShot"]
    ELSE [frame EXCEPT !.pc = "finalize"]

typeMatchEntry(typeMatchResult) ==
    FeatureResult("Widget Type Identification", KeyOf(typeMatchResult.detected),
                  KeyOf(typeMatchResult.expected), typeMatchResult.reason,
                  IF typeMatchResult.matched THEN "PASS" ELSE "FAIL")

\* How many captures a strategy returns at most.
MaxShots == 1

\* validateWithAI is called: on a closed page it returns the error result,
\* else it waits for a widget marker and counts the matches.
ValidateWithAI ==
    /\ call.op = "validateWithAI" /\ call.pc = "entry"
    /\ call' = IF dom.closed
               THEN [call EXCEPT !.pc = "settled",
                                 !.result = Resolved(buildErrorResult(call,
                                                "Page closed before validation"))]
               ELSE [call EXCEPT !.pc = "count"]
    /\ UNCHANGED <<dom, calls>>

\* The wait is over and count() settles: it rejects on a closed page; with no
\* match the verdict is 'Widget Not Found' and a full-page capture starts;
\* else the precision scan starts with the first candidate.
CountSettled ==
    LET
        \* page.locator(SELECTOR_STRING).all(): the elements that match one of the
        \* selectors, in document order (as indices into the elements of the page).
        Candidates(page) ==
            LET
                FEEDSPACE_SELECTORS ==
                    LET
                        \* A selector of FEEDSPACE_SELECTORS.
                        Selector(kind, value) == [kind |-> kind, value |-> value]
                    IN
                        << Selector("class", "feedspace-floating-card"),
                           Selector("class", "feedspace-toast"),
                           Selector("class", "feedspace-floating-widget"),
                           Selector("class", "fe-floating-preview"),
                           Selector("class", "fe-toast-card"),
                           Selector("class", "fe-chat-bubble"),
                           Selector("class", "fe-floating-toast"),
                           Selector("classContains", "floating-toast"),
                           Selector("classContains", "chat-box"),
                           Selector("class", "fe-feedspace-avatar-group-widget-wrap"),
                           Selector("class", "feedspace-carousel-widget"),
                           Selector("class", "testimonial-slider"),
                           Selector("class", "carousel_slider"),
                           Selector("class", "feedspace-marque-main-wrap"),
                           Selector("class", "feedspace-show-overlay"),
                           Selector("classContains", "feedspace-embed"),
                           Selector("class", "strip-slider"),
                           Selector("class", "feedspace-element-horizontal-scroll-widget"),
                           Selector("class", "feedspace-left-right-shadow"),
                           Selector("class", "feedspace-vertical-scroll"),
                           Selector("class", "feedspace-updown"),
                           Selector("class", "feedspace-single-review-widget"),
                           Selector("class", "feedspace-single-slider"),
                           Selector("class", "fe-masonry"),
                           Selector("class", "feedspace-masonry"),
                           Selector("id", "feedspace-widget-container"),
                           Selector("class", "feedspace-widget"),
                           Selector("class", "feedspace-elements-wrapper"),
                           Selector("iframeSrcContains", "feedspace.io"),
                           Selector("divIdContains", "feedspace"),
                           Selector("attr", "data-widget-type"),
                           Selector("attr", "data-type"),
                           Selector("attr", "widget_type_id"),
                           Selector("attr", "data-feedspace-type") >>
            IN
                LET
                    \* Whether an element matches a selector; no element of the model has an id
                    \* or a src, so the selectors on them match nothing.
                    MatchesSelector(element, selector) ==
                        CASE selector.kind = "class" -> selector.value \in ClassList(element.className)
                          [] selector.kind = "classContains" -> includes(element.className, selector.value)
                          [] selector.kind = "attr" -> element.attrs[selector.value] # Null
                          [] OTHER -> FALSE
                IN
                    LET Matches(i) == \E k \in 1..Len(FEEDSPACE_SELECTORS) :
                                          MatchesSelector(page.elements[i].page.el, FEEDSPACE_SELECTORS[k])
                        F[i \in 0..Len(page.elements)] ==
                            IF i = 0 THEN << >>
                            ELSE IF Matches(i) THEN Append(F[i - 1], i) ELSE F[i - 1]
                    IN  F[Len(page.elements)]
    IN
        /\ call.op = "validateWithAI" /\ call.pc = "count"
        /\ call' = IF dom.closed THEN [call EXCEPT !.pc = "catch"]
                   ELSE IF Candidates(dom) = << >>
                   THEN NotFound(call)
                   ELSE [call EXCEPT !.candidates = Candidates(dom), !.index = 1,
                                     !.detectedType = Unknown, !.pc = "scan"]
        /\ calls' = Append(calls, Did("count", "wait", 0, Unknown, ~dom.closed,
                                      IF dom.closed THEN 0 ELSE Len(Candidates(dom))))
        /\ UNCHANGED dom

\* The full-page capture of the 'Widget Not Found' branch settles.
NotFoundCaptured ==
    /\ call.op = "validateWithAI" /\ call.pc = "notFoundShot"
    /\ \E ok \in {TRUE, FALSE} :
           /\ dom.closed => ~ok
           /\ call' = IF ok
                      THEN [call EXCEPT !.screenshotBuffers = Append(@, "fullPage"),
                                        !.pc = "finalize"]
                      ELSE [call EXCEPT !.pc = "catch"]
           /\ calls' = Append(calls, Did("screenshot", "notFound", 0, Unknown, ok, 0))
    /\ UNCHANGED dom

\* Step 2, one iteration: the candidate is classified and compared with the
\* expected type.
ScanDiscovered ==
    /\ call.op = "validateWithAI" /\ call.pc = "scan"
    /\ LET candidate == call.candidates[call.index]
       IN  \E discovered \in DiscoverOutcomes(dom.elements[candidate], dom.closed) :
               /\ call' = LET same == isSameType(discovered, call.expectedType)
                          IN  IF same.threw THEN [call EXCEPT !.pc = "catch"]
                              ELSE ScanStep(call, candidate, discovered,
                                            same.value = Bool(TRUE))
               /\ calls' = Append(calls, Did("discover", "scan", candidate, discovered,
                                             isSameType(discovered, call.expectedType)
                                                 = Returned(Bool(TRUE)), 0))
    /\ UNCHANGED dom

\* Step 3, one iteration of the loop: the candidate is classified and taken
\* if it is visible; isVisible() answers false when it throws.
FallbackDiscovered ==
    /\ call.op = "validateWithAI" /\ call.pc = "fallback"
    /\ LET candidate == IF call.index = 0 THEN call.candidates[1]
                        ELSE call.candidates[call.index]
           frame == [call EXCEPT !.index = IF @ = 0 THEN 1 ELSE @]
           visible == ~dom.closed /\ dom.elements[candidate].visible
       IN  \E discovered \in DiscoverOutcomes(dom.elements[candidate], dom.closed) :
               /\ call' = FallbackStep(frame, candidate, discovered, visible)
               /\ calls' = Append(calls, Did("discover", "fallback", candidate, discovered,
                                             visible, 0))
    /\ UNCHANGED dom

\* Step 3, no candidate is visible: the first match is taken and classified.
FirstDiscovered ==
    /\ call.op = "validateWithAI" /\ call.pc = "first"
    /\ LET candidate == call.candidates[1]
       IN  \E discovered \in DiscoverOutcomes(dom.elements[candidate], dom.closed) :
               /\ call' = Selected(call, candidate, discovered)
               /\ calls' = Append(calls, Did("discover", "first", candidate, discovered, TRUE, 0))
    /\ UNCHANGED dom

\* A widgetType that takes the detected type as it is.
widgetTypeOf_detectedOnly(detectedType, expectedType) == detectedType

\* this.widgetType = detectedType !== 'Unknown' ? detectedType : this.expectedType
widgetTypeOf(detectedType, expectedType) ==
    IF detectedType # Unknown THEN detectedType ELSE expectedType

\* The widget type and the type match are recorded; on a closed page the
\* error result is returned.
Reconcile ==
        /\ call.op = "validateWithAI" /\ call.pc = "reconcile"
        /\ call' = LET widgetType == widgetTypeOf(call.detectedType, call.expectedType)
                       same == isSameType(call.detectedType, call.expectedType)
                       typed == [call EXCEPT !.widgetType = widgetType]
                   IN  IF same.threw THEN [typed EXCEPT !.pc = "catch"]
                       ELSE LET matched == same.value = Bool(TRUE)
                                recorded ==
                                    [typed EXCEPT !.typeMatchResult =
                                        TypeMatch(call.expectedType, call.detectedType, matched,
                                                  IF matched THEN "Widget type on page matches config"
                                                  ELSE "Config says " \o KeyOf(call.expectedType)
                                                       \o " but page has " \o KeyOf(call.detectedType))]
                            IN  IF dom.closed
                                THEN [recorded EXCEPT
                                          !.pc = "settled",
                                          !.result = Resolved(buildErrorResult(recorded,
                                                         "Page closed during setup"))]
                                ELSE [recorded EXCEPT !.pc = "setup"]
        /\ UNCHANGED <<dom, calls>>

\* Steps 4 to 6 up to the dispatch: the viewport and the distractions (they
\* may reject, and do on a closed page), the scroll to the widget, then the
\* strategy of the widget type, or step 7 when the type has none.
SetupDone ==
    /\ call.op = "validateWithAI" /\ call.pc = "setup"
    /\ \E ok \in {TRUE, FALSE} :
           /\ dom.closed => ~ok
           /\ call' = IF ~ok THEN [call EXCEPT !.pc = "catch"]
                      ELSE IF StrategyOf(toUpperCase(KeyOf(call.widgetType))) # "none"
                      THEN [call EXCEPT !.pc = "interact"]
                      ELSE AfterStrategy(call, dom.closed)
           /\ calls' = Append(calls, Did("setViewportSize", "setup", call.locator,
                                         call.widgetType, ok, 0))
    /\ UNCHANGED dom

\* The strategy returns its captures and, for the scroll strategies, its
\* verdict, or it rejects and nothing of it is kept.
StrategyReturned ==
    LET
        Movement(status) == [isNull |-> FALSE, status |-> status, message |-> "movement " \o status]
    IN
        LET
            \* What an interaction strategy resolves with: its captures, and for the two
            \* scroll strategies the movement verdict.  Nothing is captured on a closed page.
            StrategyOutcomes(strategy, closed) ==
                LET shots == IF closed THEN {<< >>}
                             ELSE {[i \in 1..n |-> "strategy"] : n \in 0..MaxShots}
                    verdicts == IF strategy \in {"VerticalScrollHelper", "HorizontalScrollHelper"}
                                THEN {Movement(status) : status \in {"PASS", "FAIL", "ERROR", "UNKNOWN"}}
                                ELSE {NoMovement}
                IN  {[screenshots |-> s, result |-> v] : s \in shots, v \in verdicts}
        IN
            /\ call.op = "validateWithAI" /\ call.pc = "interact"
            /\ LET strategy == StrategyOf(toUpperCase(KeyOf(call.widgetType)))
               IN  \/ \E outcome \in StrategyOutcomes(strategy, dom.closed) :
                          /\ call' = AfterStrategy(
                                         [call EXCEPT
                                              !.screenshotBuffers = @ \o outcome.screenshots,
                                              !.movementVerification =
                                                  IF outcome.result.isNull THEN @ ELSE outcome.result],
                                         dom.closed)
                          /\ calls' = Append(calls, Did(strategy, "interact", call.locator,
                                                        call.widgetType, TRUE,
                                                        Len(outcome.screenshots)))
                   \/ /\ call' = [call EXCEPT !.pc = "catch"]
                      /\ calls' = Append(calls, Did(strategy, "interact", call.locator,
                                                    call.widgetType, FALSE, 0))
            /\ UNCHANGED dom

\* Step 7: the capture of the selected element settles.
ElementCaptured ==
    /\ call.op = "validateWithAI" /\ call.pc = "elementShot"
    /\ \E ok \in {TRUE, FALSE} :
           /\ dom.closed => ~ok
           /\ call' = IF ok
                      THEN [call EXCEPT !.screenshotBuffers = Append(@, "element"),
                                        !.pc = "contextShot"]
                      ELSE [call EXCEPT !.pc = "catch"]
           /\ calls' = Append(calls, Did("screenshot", "element", call.locator, Unknown, ok, 0))
    /\ UNCHANGED dom

\* Step 8: the full-page context capture settles.
ContextCaptured ==
    /\ call.op = "validateWithAI" /\ call.pc = "contextShot"
    /\ \E ok \in {TRUE, FALSE} :
           /\ dom.closed => ~ok
           /\ call' = IF ok
                      THEN [call EXCEPT !.screenshotBuffers = Append(@, "fullPage"),
                                        !.pc = "finalize"]
                      ELSE [call EXCEPT !.pc = "catch"]
           /\ calls' = Append(calls, Did("screenshot", "context", 0, Unknown, ok, 0))
    /\ UNCHANGED dom

\* The catch block: with no capture yet and an open page a full-page capture
\* is tried.
ValidateCatch ==
    /\ call.op = "validateWithAI" /\ call.pc = "catch"
    /\ call' = IF call.screenshotBuffers = << >> /\ ~dom.closed
               THEN [call EXCEPT !.pc = "catchShot"]
               ELSE [call EXCEPT !.pc = "finalize"]
    /\ UNCHANGED <<dom, calls>>

\* The capture of the catch block settles; its failure is logged.
CatchCaptured ==
    /\ call.op = "validateWithAI" /\ call.pc = "catchShot"
    /\ \E ok \in {TRUE, FALSE} :
           /\ dom.closed => ~ok
           /\ call' = [call EXCEPT !.screenshotBuffers = IF ok THEN Append(@, "fullPage") ELSE @,
                                   !.pc = "finalize"]
           /\ calls' = Append(calls, Did("screenshot", "catch", 0, Unknown, ok, 0))
    /\ UNCHANGED dom

\* _finalizeAnalysis: the captures are saved and handed to the analysis.
FinalizeAnalysis ==
    LET
        \* The file names _finalizeAnalysis saves the captures under.
        savedPathsOf(frame) ==
            LET label == IF frame.widgetType # Unknown THEN KeyOf(frame.widgetType)
                         ELSE KeyOf(frame.expectedType)
                n == Len(frame.screenshotBuffers)
            IN  [i \in 1..n |-> label \o (IF n > 1 THEN "_part" \o NumToString(i) ELSE "") \o ".png"]
    IN
        /\ call.op = "validateWithAI" /\ call.pc = "finalize"
        /\ call' = [call EXCEPT !.savedPaths = savedPathsOf(call), !.pc = "analyzeScreenshot"]
        /\ calls' = Append(calls, Did("analyzeScreenshot", "finalize", 0, call.widgetType, TRUE,
                                      Len(call.screenshotBuffers)))
        /\ UNCHANGED dom

\* The analysis settles: its rejection rejects validateWithAI; its result is
\* merged with the movement verdict and the type match and returned.
AnalysisSettled ==
    LET
        \* this.aiResults after the type match was merged in.
        withTypeMatch(aiResults, typeMatchResult) ==
            IF ~aiResults.isNull /\ aiResults.hasFeatureResults /\ ~typeMatchResult.isNull
            THEN [aiResults EXCEPT
                      !.feature_results = << typeMatchEntry(typeMatchResult) >> \o @,
                      !.overall_status = IF ~typeMatchResult.matched THEN "FAIL" ELSE @]
            ELSE aiResults
    IN
        LET
            \* this.aiResults after the movement verdict was merged in.
            withMovement(aiResults, widgetType, movement) ==
                LET
                    \* The entry _finalizeAnalysis appends for the movement verdict, and the
                    \* entry it prepends for the type match.
                    movementEntry(wt, mv) ==
                        FeatureResult(IF includes(toUpperCase(KeyOf(wt)), "UPDOWN")
                                      THEN "Cross Scroll Animation" ELSE "Horizontal Scrolling Animation",
                                      IF mv.status = "PASS" THEN "Visible" ELSE "Absent",
                                      "Visible", mv.message,
                                      IF mv.status \in {"ERROR", "UNKNOWN"} THEN "FAIL" ELSE mv.status)
                IN
                    IF ~movement.isNull /\ ~aiResults.isNull /\ aiResults.hasFeatureResults
                    THEN [aiResults EXCEPT
                              !.feature_results = Append(@, movementEntry(widgetType, movement)),
                              !.overall_status = IF movement.status \in {"FAIL", "ERROR"} THEN "FAIL" ELSE @]
                    ELSE aiResults
        IN
            LET
                \* What the call of analyzeScreenshot settles with.
                AnalysisOutcomes ==
                    {Resolved(getMockResult)}
                        \cup {Resolved(processResults(aiResults)) : aiResults \in Payloads}
                        \cup {AnalyzeCatch(error, NoList, NoConfig) : error \in Errors}
            IN
                /\ call.op = "validateWithAI" /\ call.pc = "analyzeScreenshot"
                /\ \E outcome \in AnalysisOutcomes :
                       call' = IF outcome.settled = "rejected"
                               THEN [call EXCEPT !.pc = "settled", !.result = outcome]
                               ELSE LET aiResults ==
                                            withTypeMatch(withMovement(outcome.value, call.widgetType,
                                                                       call.movementVerification),
                                                          call.typeMatchResult)
                                    IN  [call EXCEPT
                                             !.pc = "settled",
                                             !.result = Resolved(Bundle(call.expectedType, call.widgetType,
                                                                        call.typeMatchResult, aiResults,
                                                                        call.movementVerification,
                                                                        call.savedPaths))]
                /\ UNCHANGED <<dom, calls>>

\* The page is closed under validateWithAI or under the helper it called;
\* closedAt keeps the await the method was at.  _finalizeAnalysis does not
\* read the page, so a closure under it is left out.
PageClosed ==
    /\ call.op \in {"validateWithAI", "AvatarGroupHelper", "FloatingToastHelper",
                      "AvatarSliderHelper"}
    /\ call.pc \notin {"finalize", "analyzeScreenshot", "settled"}
    /\ ~dom.closed
    /\ dom' = [dom EXCEPT !.closed = TRUE, !.closedAt = call.pc]
    /\ UNCHANGED <<call, calls>>

\* How many elements a page of the model has at most.
MaxElements == 2

InitValidate ==
    LET
        \* typeMatchResult
        NoTypeMatch ==
            [isNull |-> TRUE, expected |-> Unknown, detected |-> Unknown, matched |-> FALSE,
             reason |-> ""]
    IN
        LET
            \* The frame of validateWithAI with the fields of the helper it uses.
            ValidateFrame(expectedType) ==
                [op |-> "validateWithAI", pc |-> "entry", expectedType |-> expectedType,
                 widgetType |-> Unknown, typeMatchResult |-> NoTypeMatch, candidates |-> << >>,
                 index |-> 0, locator |-> 0, detectedType |-> Unknown, screenshotBuffers |-> << >>,
                 movementVerification |-> NoMovement, savedPaths |-> << >>, result |-> Pending2]

            \* The elements of the pages: the strip slider of the end-to-end scenario, a
            \* visible vertical marquee, a masonry wall (a variant without a strategy)
            \* and a hidden wrapper without any signal; a page may start with an
            \* element no selector matches.
            PageElement(className, attrs, visible) ==
                [page |-> Page(Div(attrs, className, ""), << >>, << >>, NoFrame), visible |-> visible]

            PageElements ==
                {PageElement("feedspace-marque-main-wrap", NoAttrs, TRUE),
                 PageElement("feedspace-vertical-scroll", NoAttrs, TRUE),
                 PageElement("fe-masonry", NoAttrs, TRUE),
                 PageElement("feedspace-elements-wrapper", NoAttrs, FALSE)}

            Widgets(most) == UNION {[1..n -> PageElements] : n \in 0..most}

            Documents ==
                Widgets(MaxElements)
                    \cup {<< PageElement("hero", NoAttrs, TRUE) >> \o widgets :
                              widgets \in Widgets(MaxElements - 1)}

            \* The expected types init leaves in the helper.
            ExpectedTypes ==
                {expectedTypeOf(widgetTypeId) :
                     widgetTypeId \in {Num(6), Str("stripslider"), Num(9), Num(99),
                                      Str("constructor")}}
        IN
            /\ call \in {ValidateFrame(expectedType) : expectedType \in ExpectedTypes}
            /\ dom \in {[closed |-> FALSE, closedAt |-> "", elements |-> elements] :
                            elements \in Documents}
            /\ calls = << >>

NextValidate ==
    \/ ValidateWithAI
    \/ CountSettled
    \/ NotFoundCaptured
    \/ ScanDiscovered
    \/ FallbackDiscovered
    \/ FirstDiscovered
    \/ Reconcile
    \/ SetupDone
    \/ StrategyReturned
    \/ ElementCaptured
    \/ ContextCaptured
    \/ ValidateCatch
    \/ CatchCaptured
    \/ FinalizeAnalysis
    \/ AnalysisSettled
    \/ PageClosed

SpecValidate == InitValidate /\ [][NextValidate]_vars

-----------------------------------------------------------------------------
(* Claims about validateWithAI and _finalizeAnalysis, under SpecValidate.    *)

\* C11: after reconciliation (a candidate is selected and typeMatchResult is
\* recorded), matched is true exactly when the classified variant of the
\* selected candidate and the expected variant resolve to the same canonical
\* name, that is to one name of the taxonomy; and with the expected type of
\* config {type: 6}, a selected element whose only signal is the class
\* feedspace-marque-main-wrap and whose classification settled is detected as
\* MARQUEE_STRIPE, the widget of alias 'stripslider', with matched = true.
C11_MatchedIffSameCanonicalName ==
    (call.op = "validateWithAI" /\ ~call.typeMatchResult.isNull /\ call.locator # 0) =>
        LET verdict  == call.typeMatchResult
            detected == resolve(verdict.detected)
            expected == resolve(verdict.expected)
            selected == dom.elements[call.locator].page.el
        IN  /\ verdict.matched <=>
                   /\ ~detected.threw /\ ~expected.threw
                   /\ detected.value = expected.value
                   /\ KeyOf(detected.value) \in CanonicalNames
            /\ ( /\ verdict.expected = identify(Config(Undefined, Num(6)))
                 /\ selected.className = "feedspace-marque-main-wrap"
                 /\ verdict.detected # Unknown )
               => /\ verdict.detected = Str("MARQUEE_STRIPE")
                  /\ isSameType(verdict.detected,
                                identify(Config(Undefined, Str("stripslider"))))
                         = Returned(Bool(TRUE))
                  /\ verdict.matched

\* C12 as stated: when count() settles with no match, validateWithAI records
\* widgetType 'Widget Not Found' and matched = false, classifies nothing,
\* interacts with nothing, does not reject before the handoff, and hands
\* exactly one full-page capture to the analysis.
C12_NotFoundExactlyOneCapture ==
    (call.op = "validateWithAI"
         /\ \E i \in 1..Len(calls) : calls[i].op = "count" /\ calls[i].ok /\ calls[i].images = 0)
    => /\ call.widgetType = Str("Widget Not Found")
       /\ ~call.typeMatchResult.isNull
       /\ call.typeMatchResult.detected = Str("Widget Not Found")
       /\ ~call.typeMatchResult.matched
       /\ \A i \in 1..Len(calls) : calls[i].op # "discover" /\ calls[i].phase # "interact"
       /\ call.result.settled = "rejected"
              => \E i \in 1..Len(calls) : calls[i].op = "analyzeScreenshot"
       /\ \A i \in 1..Len(calls) :
              calls[i].op = "analyzeScreenshot"
                  => calls[i].images = 1 /\ call.screenshotBuffers = << "fullPage" >>

\* C12, amended: when count() settles with no match, validateWithAI records
\* widgetType 'Widget Not Found' and matched = false, classifies nothing,
\* interacts with nothing and does not reject before the handoff; the only
\* captures it attempts are full-page ones, one in the branch and, when that
\* one fails on a page still open, one in the catch block; the analysis is
\* handed the one full-page capture that succeeded, and no capture at all when
\* the page was closed during the capture or both attempts failed.
C12_NotFoundCaptureIfPageOpen ==
    (call.op = "validateWithAI"
         /\ \E i \in 1..Len(calls) : calls[i].op = "count" /\ calls[i].ok /\ calls[i].images = 0)
    => LET Shots(phase) == {i \in 1..Len(calls) :
                                calls[i].op = "screenshot" /\ calls[i].phase = phase}
           Taken == {i \in 1..Len(calls) : calls[i].op = "screenshot" /\ calls[i].ok}
       IN  /\ call.widgetType = Str("Widget Not Found")
           /\ call.typeMatchResult.expected = call.expectedType
           /\ ~call.typeMatchResult.isNull
           /\ call.typeMatchResult.detected = Str("Widget Not Found")
           /\ ~call.typeMatchResult.matched
           /\ \A i \in 1..Len(calls) : calls[i].op # "discover" /\ calls[i].phase # "interact"
           /\ call.result.settled = "rejected"
                  => \E i \in 1..Len(calls) : calls[i].op = "analyzeScreenshot"
           /\ \A i \in 1..Len(calls) :
                  calls[i].op = "screenshot"
                      => calls[i].target = 0 /\ calls[i].phase \in {"notFound", "catch"}
           /\ Cardinality(Shots("notFound")) <= 1 /\ Cardinality(Shots("catch")) <= 1
           /\ \A i \in Shots("catch") :
                  \E j \in Shots("notFound") : j < i /\ ~calls[j].ok
           /\ \A i \in 1..Len(calls) :
                  calls[i].op = "analyzeScreenshot"
                      => /\ Shots("notFound") # {}
                         /\ \A j \in Shots("notFound") \cup Shots("catch") : j < i
                         /\ calls[i].images = Cardinality(Taken)
                         /\ call.screenshotBuffers =
                                (IF Taken = {} THEN << >> ELSE << "fullPage" >>)
                         /\ Taken = {} => dom.closed \/ Cardinality(Shots("catch")) = 1

\* C12, the case: the one element of the page matches no selector, the full-page
\* capture succeeded, and validateWithAI resolved with the verdict
\* 'Widget Not Found' after handing the one capture to the analysis.
C12_Witness ==
    /\ call.op = "validateWithAI" /\ call.pc = "settled"
    /\ call.result.settled = "resolved"
    /\ call.result.value.widgetType = Str("Widget Not Found")
    /\ ~call.result.value.typeMatchResult.matched
    /\ Len(dom.elements) = 1
    /\ Len(calls) = 3
    /\ calls[1] = Did("count", "wait", 0, Unknown, TRUE, 0)
    /\ calls[2] = Did("screenshot", "notFound", 0, Unknown, TRUE, 0)
    /\ calls[3] = Did("analyzeScreenshot", "finalize", 0, Str("Widget Not Found"), TRUE, 1)

\* C17: the precision scan classifies the candidates in enumeration order,
\* each at most once, and takes a candidate exactly when its classified
\* variant is equivalent (isSameType) to the expected variant (compared when
\* its call is the latest of the log); the first candidate taken is the
\* selected handle, no candidate after it is classified in that scan and the
\* fallback does not run; a handle selected without the fallback is that
\* candidate.
C17_FirstEquivalentWins ==
    call.op = "validateWithAI" =>
        LET Scan == {i \in 1..Len(calls) : calls[i].op = "discover" /\ calls[i].phase = "scan"}
            Later == {i \in 1..Len(calls) :
                          calls[i].op = "discover" /\ calls[i].phase \in {"fallback", "first"}}
            Same == {i \in Scan : calls[i].ok}
            Nth(i) == Cardinality({j \in Scan : j <= i})
        IN  /\ Len(calls) \in Scan
                   => (calls[Len(calls)].ok
                           <=> isSameType(calls[Len(calls)].type, call.expectedType)
                                   = Returned(Bool(TRUE)))
            /\ \A i \in Scan : Nth(i) <= Len(call.candidates)
                                  /\ calls[i].target = call.candidates[Nth(i)]
            /\ \A i \in Same, j \in Scan : j <= i
            /\ \A i \in Same : /\ call.locator = calls[i].target
                               /\ call.detectedType = calls[i].type
                               /\ call.pc \notin {"scan", "fallback", "first"}
                               /\ Later = {}
            /\ (call.locator # 0 /\ Later = {})
                   => \E i \in Same : call.locator = calls[i].target

\* C17, the case: both candidates of the page are strip sliders, the expected
\* type is MARQUEE_STRIPE, the first is classified as MARQUEE_STRIPE and
\* selected, and the method went on to the end without classifying the second.
C17_Witness ==
    /\ call.op = "validateWithAI" /\ call.pc = "settled"
    /\ call.expectedType = Str("MARQUEE_STRIPE")
    /\ call.candidates = << 1, 2 >>
    /\ \A k \in 1..2 : classify(evaluate(dom.elements[k].page)).value = Str("MARQUEE_STRIPE")
    /\ call.locator = 1
    /\ call.typeMatchResult.matched
    /\ {calls[i].target : i \in {j \in 1..Len(calls) : calls[j].op = "discover"}} = {1}
    /\ calls[2] = Did("discover", "scan", 1, Str("MARQUEE_STRIPE"), TRUE, 0)

\* C18: the fallback runs only after the scan took none of the candidates; it
\* visits the candidates in document order, passes over those that are not
\* visible and selects the first visible one whatever it is classified as;
\* when none is visible the first candidate is selected; and the variant the
\* selected handle was classified as when it was selected is recorded as
\* typeMatchResult.detected.
C18_FallbackLadder ==
    call.op = "validateWithAI" =>
        LET Scan == {i \in 1..Len(calls) : calls[i].op = "discover" /\ calls[i].phase = "scan"}
            Loop == {i \in 1..Len(calls) :
                         calls[i].op = "discover" /\ calls[i].phase = "fallback"}
            First == {i \in 1..Len(calls) : calls[i].op = "discover" /\ calls[i].phase = "first"}
            All == {i \in 1..Len(calls) : calls[i].op = "discover"}
            Nth(i) == Cardinality({j \in Loop : j <= i})
            Visible(i) == dom.elements[calls[i].target].visible
        IN  /\ Loop # {}
                   => /\ Cardinality(Scan) = Len(call.candidates)
                      /\ \A i \in Scan : ~calls[i].ok
            /\ \A i \in Loop : /\ Nth(i) <= Len(call.candidates)
                               /\ calls[i].target = call.candidates[Nth(i)]
                               /\ calls[i].ok => Visible(i)
                               /\ ~dom.closed => (calls[i].ok <=> Visible(i))
            /\ \A i \in Loop, j \in Loop : i < j => ~calls[i].ok
            /\ \A i \in Loop :
                   calls[i].ok => /\ call.locator = calls[i].target
                                  /\ call.detectedType = calls[i].type
                                  /\ First = {}
                                  /\ call.pc \notin {"fallback", "first"}
            /\ \A i \in First : /\ Cardinality(First) = 1
                                /\ Cardinality(Loop) = Len(call.candidates)
                                /\ \A j \in Loop : ~calls[j].ok
                                /\ calls[i].target = call.candidates[1]
                                /\ call.locator = call.candidates[1]
                                /\ call.detectedType = calls[i].type
            /\ (call.locator # 0 /\ Loop # {})
                   => (\E i \in Loop : calls[i].ok) \/ First # {}
            /\ (call.locator # 0 /\ ~call.typeMatchResult.isNull)
                   => /\ All # {}
                      /\ \A i \in All :
                             (\A j \in All : j <= i)
                                 => /\ calls[i].target = call.locator
                                    /\ call.typeMatchResult.detected = calls[i].type

\* C18, the case: the expected type is MARQUEE_STRIPE, the first candidate is
\* a hidden wrapper without a signal, the second a visible vertical marquee;
\* the scan selected neither, the fallback passed over the first and selected
\* the second, and MARQUEE_UPDOWN is recorded as detected, not matched.
C18_Witness ==
    /\ call.op = "validateWithAI" /\ call.pc = "settled"
    /\ call.result.settled = "resolved"
    /\ call.expectedType = Str("MARQUEE_STRIPE")
    /\ call.candidates = << 1, 2 >>
    /\ ~dom.elements[1].visible /\ dom.elements[2].visible
    /\ call.locator = 2
    /\ Len(calls) > 4
    /\ calls[4] = Did("discover", "fallback", 1, Unknown, FALSE, 0)
    /\ calls[5] = Did("discover", "fallback", 2, Str("MARQUEE_UPDOWN"), TRUE, 0)
    /\ call.result.value.typeMatchResult
           = TypeMatch(Str("MARQUEE_STRIPE"), Str("MARQUEE_UPDOWN"), FALSE,
                       "Config says MARQUEE_STRIPE but page has MARQUEE_UPDOWN")

\* C19: whenever validateWithAI resolves, after the handoff, with a type
\* match that is not matched ('Widget Not Found' included), the result
\* carries an analysis whose first entry records the disagreement as FAIL and
\* whose overall status is FAIL, whatever the analysis returned.
C19_MismatchForcesFail ==
    (call.op = "validateWithAI" /\ call.pc = "settled" /\ call.result.settled = "resolved"
         /\ call.result.value.widgetType # Str("Error")
         /\ ~call.result.value.typeMatchResult.isNull
         /\ ~call.result.value.typeMatchResult.matched)
    => LET aiAnalysis == call.result.value.aiAnalysis
       IN  /\ ~aiAnalysis.isNull
           /\ aiAnalysis.overall_status = "FAIL"
           /\ aiAnalysis.feature_results # << >>
           /\ aiAnalysis.feature_results[1]
                  = typeMatchEntry(call.result.value.typeMatchResult)

\* C20 as stated: at the handoff of a target with a selected widget the
\* captures handed over are at least one; when the strategy produced none (or
\* the type has no strategy) one capture of the selected element is among them.
C20_AtLeastOneImage ==
    call.op = "validateWithAI" =>
        \A i \in 1..Len(calls) :
            (calls[i].op = "analyzeScreenshot" /\ call.locator # 0)
                => /\ calls[i].images >= 1
                   /\ (\A j \in 1..Len(calls) : calls[j].phase = "interact" => calls[j].images = 0)
                          => Len(SelectSeq(call.screenshotBuffers,
                                           LAMBDA shot : shot = "element")) = 1

\* C20, amended: at the handoff of a target with a selected widget the
\* analysis is handed the captures that succeeded.  When steps 4 to 6 went
\* through and the strategy returned no capture (or the type has none), one
\* capture of the selected element was attempted before the handoff, and it
\* is the first image when it succeeded.  When that capture or an earlier step
\* failed with no capture yet, one full-page capture was attempted in the
\* catch block if the page was still open.  The analysis is handed no image
\* when the page was closed or that capture failed as well.
C20_ImageIfCaptureSucceeds ==
    call.op = "validateWithAI" =>
        LET Shots(phase) == {i \in 1..Len(calls) :
                                 calls[i].op = "screenshot" /\ calls[i].phase = phase}
            Taken == {i \in 1..Len(calls) : calls[i].op = "screenshot" /\ calls[i].ok}
            Interacted == {i \in 1..Len(calls) : calls[i].phase = "interact"}
            Returned0 == \A i \in Interacted : calls[i].ok /\ calls[i].images = 0
            Step7 == /\ \E i \in 1..Len(calls) : calls[i].phase = "setup" /\ calls[i].ok
                     /\ Returned0
                     /\ StrategyOf(toUpperCase(KeyOf(call.widgetType))) # "none"
                            => Interacted # {}
        IN  \A h \in 1..Len(calls) :
                (calls[h].op = "analyzeScreenshot" /\ call.locator # 0)
                    => /\ calls[h].images = Len(call.screenshotBuffers)
                       /\ \A i \in Taken : i < h
                       /\ Cardinality(Shots("element")) <= 1
                       /\ Cardinality(Shots("catch")) <= 1
                       /\ Step7 <=> Shots("element") # {}
                       /\ \A i \in Shots("element") :
                              /\ calls[i].target = call.locator /\ i < h
                              /\ calls[i].ok <=> (call.screenshotBuffers # << >>
                                                  /\ call.screenshotBuffers[1] = "element")
                              /\ ~calls[i].ok /\ ~dom.closed => Shots("catch") # {}
                       /\ \A i \in Shots("catch") :
                              /\ calls[i].target = 0 /\ i < h
                              /\ calls[i].ok <=> call.screenshotBuffers = << "fullPage" >>
                       /\ calls[h].images = 0
                              => /\ Taken = {}
                                 /\ \A i \in Interacted : calls[i].images = 0
                                 /\ dom.closed \/ \E i \in Shots("catch") : ~calls[i].ok

\* C20, the case: the selected widget is a wrapper without a signal, so no
\* strategy ran; the capture of the element was taken, then the full-page
\* context capture, and the two were handed to the analysis.
C20_Witness ==
    /\ call.op = "validateWithAI" /\ call.pc = "settled"
    /\ call.result.settled = "resolved"
    /\ call.locator = 1
    /\ StrategyOf(toUpperCase(KeyOf(call.widgetType))) = "none"
    /\ call.screenshotBuffers = << "element", "fullPage" >>
    /\ \E i \in 1..Len(calls) : calls[i] = Did("screenshot", "element", 1, Unknown, TRUE, 0)
    /\ calls[Len(calls)].op = "analyzeScreenshot" /\ calls[Len(calls)].images = 2
    /\ call.result.value.screenshotPaths = << "Unknown_part1.png", "Unknown_part2.png" >>

\* C21 as stated: in the log of one target every discover precedes the
\* interaction strategy and the strategy precedes the full-page context
\* capture; and once the captures are handed to the analysis after a setup
\* that succeeded, with the page still open, the last image is the full-page
\* capture.
C21_ContextAlwaysLast ==
    /\ \A i, j \in 1..Len(calls) :
           (calls[i].op = "discover" /\ calls[j].phase = "interact") => i < j
    /\ \A i, j \in 1..Len(calls) :
           (calls[i].phase = "interact" /\ calls[j].phase = "context") => i < j
    /\ (/\ call.pc \in {"finalize", "analyzeScreenshot", "settled"}
        /\ ~dom.closed
        /\ \E i \in 1..Len(calls) : calls[i].phase = "setup" /\ calls[i].ok)
       => /\ call.screenshotBuffers # << >>
          /\ call.screenshotBuffers[Len(call.screenshotBuffers)] = "fullPage"

\* C21, amended: the order of the steps holds as stated (every discover
\* precedes the setup and the strategy, the strategy precedes the capture of
\* the element and the full-page context capture); and when the page is still
\* open and no step after the setup rejected, the full-page context capture
\* was made after everything else and is the last image handed to the
\* analysis, after the captures of the strategy.
C21_OrderedContextLast ==
    /\ \A i, j \in 1..Len(calls) :
           (calls[i].op = "discover" /\ calls[j].phase \in {"setup", "interact"}) => i < j
    /\ \A i, j \in 1..Len(calls) :
           (calls[i].phase = "interact" /\ calls[j].phase \in {"element", "context"}) => i < j
    /\ \A j \in 1..Len(calls) :
           calls[j].phase = "context" =>
               \A k \in (j + 1)..Len(calls) : calls[k].phase = "finalize"
    /\ (/\ call.pc \in {"finalize", "analyzeScreenshot", "settled"}
        /\ ~dom.closed
        /\ \E i \in 1..Len(calls) : calls[i].phase = "setup" /\ calls[i].ok
        /\ \A i \in 1..Len(calls) :
               calls[i].phase \in {"interact", "element", "context"} => calls[i].ok)
       => /\ \E j \in 1..Len(calls) : calls[j].phase = "context" /\ calls[j].ok
          /\ Len(call.screenshotBuffers) >= 2
          /\ call.screenshotBuffers[Len(call.screenshotBuffers)] = "fullPage"
          /\ \A n \in 1..(Len(call.screenshotBuffers) - 1) :
                 call.screenshotBuffers[n] \in {"strategy", "element"}

\* C21, the case: a strategy returned a capture of its own, and the full-page
\* capture was still appended after it on the open page.
C21_Witness ==
    /\ call.pc = "settled"
    /\ ~dom.closed
    /\ call.screenshotBuffers = <<"strategy", "fullPage">>
    /\ \E i, j, k \in 1..Len(calls) :
           /\ i < j /\ j < k
           /\ calls[i].op = "discover"
           /\ calls[j].phase = "interact" /\ calls[j].images = 1
           /\ calls[k].phase = "context" /\ calls[k].ok

\* C22 (refuted by the code): on a closed page validateWithAI is not waiting
\* on a capture or an interaction, except the one the page was closed under;
\* and a call that met a closed page before its captures were handed to the
\* analysis resolves with the error result: widget type 'Error', a reason
\* that names the closed page, and no image.
C22_ClosedPageGated ==
    /\ (/\ dom.closed
        /\ call.pc \in {"notFoundShot", "setup", "interact", "elementShot", "contextShot",
                        "catchShot"})
       => dom.closedAt = call.pc
    /\ (/\ call.pc = "settled"
        /\ dom.closed
        /\ dom.closedAt # "catch")
       => /\ call.result.settled = "resolved"
          /\ call.result.value.widgetType = Str("Error")
          /\ call.result.value.typeMatchResult.reason
                 \in {"Page closed before validation", "Page closed during setup"}
          /\ call.result.value.screenshotPaths = << >>
          /\ \A i \in 1..Len(calls) : calls[i].phase # "finalize"

\* C25 (refuted by the code): whatever fails in waiting, classification,
\* interaction, capture or analysis, validateWithAI does not reject, and the
\* result it resolves with carries an analysis the runner can read the overall
\* status from (validationResult.aiAnalysis.overall_status).
C25_NeverRejectsStatusReadable ==
    call.pc = "settled" =>
        /\ call.result.settled = "resolved"
        /\ ~call.result.value.aiAnalysis.isNull

\* C35: typeMatchResult.matched is true only if the detected value is one of
\* the 8 canonical variants: a verdict whose detected value is 'Unknown',
\* 'Widget Not Found' or 'Error' never has matched = true, whatever the
\* expected type from config is.
C35_MatchedOnlyCanonical ==
    (call.op = "validateWithAI" /\ ~call.typeMatchResult.isNull /\ call.typeMatchResult.matched) =>
        /\ call.typeMatchResult.detected.t = "string"
        /\ call.typeMatchResult.detected.s \in CanonicalNames

\* C32 as stated: when the detected variant of the selected handle is 'Unknown'
\* or a variant without a registered strategy, no interaction strategy is
\* invoked and the analysis is handed the capture of the selected element
\* followed by the full-page context capture.
C32_DetectedWithoutStrategy ==
    LET Registered == {"AVATAR_GROUP", "FLOATING_TOAST", "CAROUSEL_SLIDER", "MARQUEE_STRIPE",
                       "STRIP_SLIDER", "SINGLE_SLIDER", "MARQUEE_UPDOWN", "MARQUEE_LEFTRIGHT"}
    IN  (/\ call.op = "validateWithAI" /\ call.locator # 0
         /\ ~call.typeMatchResult.isNull
         /\ toUpperCase(KeyOf(call.typeMatchResult.detected)) \notin Registered)
            => /\ \A i \in 1..Len(calls) : calls[i].phase # "interact"
               /\ \A h \in 1..Len(calls) :
                      calls[h].op = "analyzeScreenshot"
                          => call.screenshotBuffers = << "element", "fullPage" >>

\* C32, amended: the strategy is chosen by widgetType, which is the detected
\* variant, or the expected type when the detected variant is 'Unknown'.  When
\* that type has no registered strategy no interaction strategy is invoked;
\* once steps 4 and 5 went through, one capture of the selected element is
\* attempted, and the analysis is handed that capture followed by the
\* full-page context capture exactly when both captures succeeded.
C32_WidgetTypeWithoutStrategy ==
    LET Registered == {"AVATAR_GROUP", "FLOATING_TOAST", "CAROUSEL_SLIDER", "MARQUEE_STRIPE",
                       "STRIP_SLIDER", "SINGLE_SLIDER", "MARQUEE_UPDOWN", "MARQUEE_LEFTRIGHT"}
        Ok(phase) == \E i \in 1..Len(calls) :
                         calls[i].op = "screenshot" /\ calls[i].phase = phase /\ calls[i].ok
        Tried(phase) == \E i \in 1..Len(calls) :
                            calls[i].op = "screenshot" /\ calls[i].phase = phase
    IN  (/\ call.op = "validateWithAI" /\ call.locator # 0
         /\ ~call.typeMatchResult.isNull
         /\ toUpperCase(KeyOf(call.widgetType)) \notin Registered)
            => /\ \A i \in 1..Len(calls) : calls[i].phase # "interact"
               /\ call.widgetType = (IF call.typeMatchResult.detected # Unknown
                                     THEN call.typeMatchResult.detected
                                     ELSE call.typeMatchResult.expected)
               /\ \A h \in 1..Len(calls) :
                      calls[h].op = "analyzeScreenshot"
                          => /\ (\E i \in 1..Len(calls) : calls[i].phase = "setup" /\ calls[i].ok)
                                    <=> Tried("element")
                             /\ (Ok("element") /\ Ok("context"))
                                    <=> call.screenshotBuffers = << "element", "fullPage" >>
                             /\ call.screenshotBuffers \in
                                    {<< >>, << "fullPage" >>, << "element" >>,
                                     << "element", "fullPage" >>}

\* C32, the case: the selected element is a masonry wall, detected as MASONRY;
\* no strategy ran, the element was captured, then the full page, and the two
\* images were handed to the analysis.
C32_Witness ==
    /\ call.op = "validateWithAI" /\ call.pc = "settled"
    /\ call.result.settled = "resolved"
    /\ call.locator # 0
    /\ call.typeMatchResult.detected = Str("MASONRY")
    /\ call.widgetType = Str("MASONRY")
    /\ \A i \in 1..Len(calls) : calls[i].phase # "interact"
    /\ call.screenshotBuffers = << "element", "fullPage" >>
    /\ \E i \in 1..Len(calls) : calls[i].op = "analyzeScreenshot" /\ calls[i].images = 2

\* C39: the widgetType that selects the interaction strategy and is reported
\* in the bundle equals typeMatchResult.detected whenever the detected variant
\* is not 'Unknown'; when it is 'Unknown', widgetType is the expected type from
\* config while typeMatchResult.detected stays 'Unknown'.  At most one
\* interaction strategy is invoked per call, on the selected handle, and it is
\* the strategy of widgetType: it is invoked whenever that type has one and
\* the setup steps went through.
C39_WidgetTypeSelectsStrategy ==
    call.op = "validateWithAI" =>
        LET verdict    == call.typeMatchResult
            Interacted == {i \in 1..Len(calls) : calls[i].phase = "interact"}
            Expected   == IF verdict.detected # Unknown THEN verdict.detected
                          ELSE verdict.expected
            Helper     == StrategyOf(toUpperCase(KeyOf(Expected)))
        IN  /\ Cardinality(Interacted) <= 1
            /\ Interacted # {} => ~verdict.isNull
            /\ (~verdict.isNull /\ call.locator # 0) =>
                   /\ call.widgetType = Expected
                   /\ \A i \in Interacted :
                          /\ calls[i].op = Helper /\ Helper # "none"
                          /\ calls[i].target = call.locator
                          /\ calls[i].type = Expected
                   /\ \A h \in 1..Len(calls) :
                          (/\ calls[h].op = "analyzeScreenshot"
                           /\ Helper # "none"
                           /\ \E i \in 1..Len(calls) : calls[i].phase = "setup" /\ calls[i].ok)
                              => Interacted # {}
            /\ (call.pc = "settled" /\ call.result.settled = "resolved"
                /\ ~call.result.value.typeMatchResult.isNull) =>
                   LET bundle == call.result.value
                   IN  /\ bundle.typeMatchResult.detected # Unknown
                              => bundle.widgetType = bundle.typeMatchResult.detected
                       /\ bundle.typeMatchResult.detected = Unknown
                              => bundle.widgetType = bundle.typeMatchResult.expected

\* C39, the case: under the expected type MARQUEE_STRIPE the selected wrapper
\* carries no signal, so detected is 'Unknown' and widgetType MARQUEE_STRIPE;
\* the strip helper ran once and the bundle reports both.
C39_Witness ==
    /\ call.op = "validateWithAI" /\ call.pc = "settled"
    /\ call.result.settled = "resolved"
    /\ call.result.value.typeMatchResult.detected = Unknown
    /\ call.result.value.typeMatchResult.expected = Str("MARQUEE_STRIPE")
    /\ call.result.value.widgetType = Str("MARQUEE_STRIPE")
    /\ Cardinality({i \in 1..Len(calls) :
                        calls[i].phase = "interact" /\ calls[i].op = "StripSliderHelper"}) = 1

\* C36: in every result of _finalizeAnalysis that has feature_results,
\* aiAnalysis.overall_status is 'PASS' only if no entry of feature_results has
\* status 'FAIL', the prepended 'Widget Type Identification' entry and the
\* appended movement entry included.
C36_PassMeansNoFail ==
    (/\ call.op = "validateWithAI" /\ call.pc = "settled"
     /\ call.result.settled = "resolved"
     /\ ~call.result.value.aiAnalysis.isNull
     /\ call.result.value.aiAnalysis.hasFeatureResults
     /\ call.result.value.aiAnalysis.overall_status = "PASS")
        => \A i \in 1..Len(call.result.value.aiAnalysis.feature_results) :
               call.result.value.aiAnalysis.feature_results[i].status # "FAIL"

-----------------------------------------------------------------------------
(* Part IV: the interaction strategies.  VerticalScrollHelper and            *)
(* HorizontalScrollHelper (the analysis of the sampled positions),           *)
(* StripSliderHelper (the selection of the cards) and AvatarGroupHelper       *)
(* (the whole of interact).                                                   *)

\* targetsToClick.length >= 3
TargetLimit == 3

\* visibleAvatars.length >= 5
VisibleCap == 5

\* The direction of a track whose children shifted by totalShift in all over
\* count children: avgShift = count > 0 ? totalShift / count : 0, then
\* avgShift > 1, avgShift < -1, or neither.  The quotient is compared without
\* dividing.
direction_noDeadband(helper, totalShift, count) ==
    IF count > 0 /\ totalShift > 0
    THEN (IF helper = "VerticalScrollHelper" THEN "DOWN" ELSE "RIGHT")
    ELSE IF count > 0 /\ totalShift < 0
    THEN (IF helper = "VerticalScrollHelper" THEN "UP" ELSE "LEFT")
    ELSE "STATIONARY"

direction(helper, totalShift, count) ==
    IF count > 0 /\ totalShift > count
    THEN (IF helper = "VerticalScrollHelper" THEN "DOWN" ELSE "RIGHT")
    ELSE IF count > 0 /\ totalShift < -count
    THEN (IF helper = "VerticalScrollHelper" THEN "UP" ELSE "LEFT")
    ELSE "STATIONARY"

\* visibleAvatars: the positions in allCandidates of the candidates the filter
\* of step 1 keeps.  A visible candidate with a data-feed-id is kept the first
\* time the id is seen, one without is kept as it comes; the loop stops once
\* VisibleCap candidates are kept.
visibleAvatarsOf_noDedupe(allCandidates) ==
    LET P[k \in 0..Len(allCandidates)] ==
            IF k = 0 THEN << >>
            ELSE IF Len(P[k - 1]) >= VisibleCap \/ ~allCandidates[k].visible THEN P[k - 1]
            ELSE Append(P[k - 1], k)
    IN  P[Len(allCandidates)]

visibleAvatarsOf(allCandidates) ==
    LET P[k \in 0..Len(allCandidates)] ==
            IF k = 0 THEN [visibleAvatars |-> << >>, seenFeedIds |-> {}]
            ELSE LET prev == P[k - 1]
                     feedId == allCandidates[k].feedId
                 IN  IF Len(prev.visibleAvatars) >= VisibleCap \/ ~allCandidates[k].visible
                     THEN prev
                     ELSE IF Truthy(feedId)
                     THEN IF feedId \in prev.seenFeedIds THEN prev
                          ELSE [visibleAvatars |-> Append(prev.visibleAvatars, k),
                                seenFeedIds |-> prev.seenFeedIds \cup {feedId}]
                     ELSE [prev EXCEPT !.visibleAvatars = Append(@, k)]
    IN  P[Len(allCandidates)].visibleAvatars

\* The statements of one iteration of the loop over indicesToInteract, in the
\* order of the code; after the last the loop goes on with the next index.
nextStep_captureFirst(step) ==
    CASE step = "reset" -> "scroll"
      [] step = "scroll" -> "capture"
      [] step = "capture" -> "click"
      [] step = "click" -> "waitVisible"
      [] step = "waitVisible" -> "close"
      [] OTHER -> "reset"

nextStep(step) ==
    CASE step = "reset" -> "scroll"
      [] step = "scroll" -> "click"
      [] step = "click" -> "waitVisible"
      [] step = "waitVisible" -> "capture"
      [] step = "capture" -> "close"
      [] OTHER -> "reset"

\* The end of an iteration, reached by its last statement or by its catch
\* block: the next index, or the return of the captures.
itemDone(frame) ==
    IF frame.i < Len(frame.indicesToInteract)
    THEN [frame EXCEPT !.i = @ + 1, !.pc = "reset"]
    ELSE [frame EXCEPT !.pc = "settled", !.result = Resolved(frame.screenshotBuffers)]

\* A statement of the iteration settled: the next statement, or the catch
\* block when it threw.
advance(frame, ok) ==
    IF ok /\ nextStep(frame.pc) # "reset" THEN [frame EXCEPT !.pc = nextStep(frame.pc)]
    ELSE itemDone(frame)

\* An entry of the log of AvatarGroupHelper: the step, the part of the
\* iteration it belongs to, the index of the avatar, whether the popup was
\* visible to the step and whether the step succeeded.
Step(op, phase, frame, popup, ok) ==
    Did(op, phase, IF frame.i = 0 THEN 0 ELSE frame.indicesToInteract[frame.i],
        Str(IF popup THEN "popup" ELSE "none"), ok, 0)

\* Step 0: the capture of the widget before any click; its failure is
\* swallowed.
AvatarsOnlyCaptured ==
    /\ call.op = "AvatarGroupHelper" /\ call.pc = "avatarsOnly"
    /\ \E ok \in {TRUE, FALSE} :
           /\ dom.closed => ~ok
           /\ call' = [call EXCEPT
                           !.screenshotBuffers = IF ok THEN Append(@, "avatarsOnly") ELSE @,
                           !.pc = "all"]
           /\ calls' = Append(calls, Step("screenshot", "avatarsOnly", call, dom.popup, ok))
    /\ UNCHANGED dom

\* all() settles, outside any try block: its rejection rejects interact.
\* Else the visible avatars are filtered and the indices are picked.
AllSettled ==
    LET
        \* indicesToInteract: the first and the third of the visible avatars.
        indicesToInteract(visibleAvatars) ==
            (IF Len(visibleAvatars) > 0 THEN <<0>> ELSE << >>)
                \o (IF Len(visibleAvatars) > 2 THEN <<2>> ELSE << >>)
    IN
        /\ call.op = "AvatarGroupHelper" /\ call.pc = "all"
        /\ call' = IF dom.closed
                   THEN [call EXCEPT !.pc = "settled",
                                     !.result = Rejected("Target page, context or browser has been closed")]
                   ELSE LET visibleAvatars == visibleAvatarsOf(dom.elements)
                            picked == [call EXCEPT
                                           !.visibleAvatars = visibleAvatars,
                                           !.indicesToInteract = indicesToInteract(visibleAvatars)]
                        IN  itemDone(picked)
        /\ calls' = Append(calls, Step("all", "select", call, dom.popup, ~dom.closed))
        /\ UNCHANGED dom

\* Part 2 of an iteration: a popup that is still open is closed by a click
\* outside, then by its close button.
ResetDone ==
    /\ call.op = "AvatarGroupHelper" /\ call.pc = "reset"
    /\ \/ /\ dom.closed \/ ~dom.popup
          /\ call' = advance(call, ~dom.closed)
          /\ calls' = Append(calls, Step("isVisible", "reset", call, FALSE, ~dom.closed))
          /\ UNCHANGED dom
       \/ /\ ~dom.closed /\ dom.popup
          /\ \E outside, button \in {TRUE, FALSE} :
                 /\ dom' = [dom EXCEPT !.popup = ~(outside \/ button)]
                 /\ calls' = calls
                        \o <<Step("isVisible", "reset", call, TRUE, TRUE),
                             Step("clickOutside", "reset", call, TRUE, outside)>>
                        \o (IF outside THEN << >>
                            ELSE <<Step("closeButton", "reset", call, TRUE, button)>>)
                        \o <<Step("waitForHidden", "reset", call, ~(outside \/ button),
                                  outside \/ button)>>
          /\ call' = advance(call, TRUE)

\* Part 3: the avatar is scrolled into view.
Scrolled ==
    /\ call.op = "AvatarGroupHelper" /\ call.pc = "scroll"
    /\ \E ok \in {TRUE, FALSE} :
           /\ dom.closed => ~ok
           /\ call' = advance(call, ok)
           /\ calls' = Append(calls, Step("scrollIntoView", "item", call, dom.popup, ok))
    /\ UNCHANGED dom

\* Part 3: the click on the avatar; the popup may open.
Clicked ==
    /\ call.op = "AvatarGroupHelper" /\ call.pc = "click"
    /\ \E ok, opens \in {TRUE, FALSE} :
           /\ dom.closed => ~ok
           /\ opens => ok
           /\ call' = advance(call, ok)
           /\ dom' = [dom EXCEPT !.popup = @ \/ opens]
           /\ calls' = Append(calls, Step("click", "item", call, dom.popup \/ opens, ok))

\* Part 4: the bounded wait for the popup, whose timeout is swallowed, and the
\* settle delay.
PopupWaited ==
    /\ call.op = "AvatarGroupHelper" /\ call.pc = "waitVisible"
    /\ call' = advance(call, ~dom.closed)
    /\ calls' = calls \o <<Step("waitForVisible", "item", call, dom.popup, dom.popup),
                           Step("waitForTimeout(1500)", "item", call, dom.popup, ~dom.closed)>>
    /\ UNCHANGED dom

\* Part 4: the capture callback settles.
Captured ==
    /\ call.op = "AvatarGroupHelper" /\ call.pc = "capture"
    /\ \E ok \in {TRUE, FALSE} :
           /\ dom.closed => ~ok
           /\ call' = advance([call EXCEPT
                                   !.screenshotBuffers =
                                       IF ok THEN Append(@, IF dom.popup THEN "popup" ELSE "viewport")
                                       ELSE @],
                              ok)
           /\ calls' = Append(calls, Step("capture", "item", call, dom.popup, ok))
    /\ UNCHANGED dom

\* Part 5: the click outside, the close button when the popup stays, the wait
\* for the popup to hide and the delay before the next avatar.
PopupClosed ==
    /\ call.op = "AvatarGroupHelper" /\ call.pc = "close"
    /\ \/ /\ dom.closed
          /\ call' = advance(call, FALSE)
          /\ calls' = Append(calls, Step("clickOutside", "item", call, dom.popup, FALSE))
          /\ UNCHANGED dom
       \/ /\ ~dom.closed
          /\ \E outside, button \in {TRUE, FALSE} :
                 /\ ~dom.popup => outside
                 /\ dom' = [dom EXCEPT !.popup = @ /\ ~(outside \/ button)]
                 /\ calls' = calls
                        \o <<Step("clickOutside", "item", call, dom.popup, outside)>>
                        \o (IF outside THEN << >>
                            ELSE <<Step("closeButton", "item", call, TRUE, button)>>)
                        \o <<Step("waitForHidden", "item", call, dom.popup /\ ~(outside \/ button),
                                  outside \/ button),
                             Step("waitForTimeout(1000)", "item", call,
                                  dom.popup /\ ~(outside \/ button), TRUE)>>
          /\ call' = advance(call, TRUE)

\* Steps 1 of StripSliderHelper.interact: the cards to click are selected.
TargetsSelected ==
    LET
        \* Step 1 of StripSliderHelper.interact: the cards to click, as their positions
        \* in allCards.  The first pass takes the cards whose identifier
        \* (data-feed-id, else data-review-id) was not seen yet; the second pass fills
        \* up from the cards at every step-th position that are not taken yet.
        targetsToClick(allCards) ==
            LET
                uniqueId(card) == IF Truthy(card.feedId) THEN card.feedId ELSE card.reviewId

                P[k \in 0..Len(allCards)] ==
                    IF k = 0 THEN [targets |-> << >>, seenIds |-> {}]
                    ELSE LET prev == P[k - 1]
                             id == uniqueId(allCards[k])
                         IN  IF Len(prev.targets) >= TargetLimit THEN prev
                             ELSE IF Truthy(id) /\ id \notin prev.seenIds
                             THEN [targets |-> Append(prev.targets, k),
                                   seenIds |-> prev.seenIds \cup {id}]
                             ELSE prev

                byId == P[Len(allCards)].targets
                n == Len(allCards)
                floorQuarter == n \div 4
                step == IF floorQuarter > 1 THEN floorQuarter ELSE 1

                \* The iteration with i = (k - 1) * step, counted from 0.
                F[k \in 0..n] ==
                    IF k = 0 THEN byId
                    ELSE LET prev == F[k - 1]
                             i == (k - 1) * step
                         IN  IF i >= n \/ Len(prev) >= TargetLimit THEN prev
                             ELSE IF \E t \in 1..Len(prev) : prev[t] = i + 1 THEN prev
                             ELSE Append(prev, i + 1)
            IN
                IF Len(byId) < TargetLimit /\ n > Len(byId) THEN F[n] ELSE byId
    IN
        /\ call.op = "StripSliderHelper" /\ call.pc = "select"
        /\ call' = [call EXCEPT !.targetsToClick = targetsToClick(dom.elements), !.pc = "settled"]
        /\ UNCHANGED <<dom, calls>>

\* Step 3 of the scroll helpers: the verdict on the sampled positions.
MovementAnalysed ==
    LET
        \* Step 3 of the two scroll helpers: the verdict on the positions sampled at
        \* the start and at the end.  A state is one map per track, from the index of
        \* a child to its position (Null where the child had no box); the
        \* TypeError of reading colResults[i].direction of a missing entry is caught
        \* by the helper and becomes the status ERROR.
        analysis(helper, columnCount, initialStates, finalStates, config) ==
            LET
                \* The children of a track that have a position in both samples.
                Both(initial, final) ==
                    {id \in 1..Len(initial) : initial[id] # Null /\ id <= Len(final) /\ final[id] # Null}

                Total(initial, final, ids) ==
                    LET T[k \in 0..Len(initial)] ==
                            IF k = 0 THEN 0
                            ELSE T[k - 1] + (IF k \in ids THEN final[k].n - initial[k].n ELSE 0)
                    IN  T[Len(initial)]

                \* colResults: an entry for every track that has a map in both samples.
                colResults ==
                    LET R[i \in 0..columnCount] ==
                            IF i = 0 THEN << >>
                            ELSE IF i > Len(initialStates) \/ i > Len(finalStates) THEN R[i - 1]
                            ELSE LET ids == Both(initialStates[i], finalStates[i])
                                 IN  Append(R[i - 1],
                                            direction(helper,
                                                      Total(initialStates[i], finalStates[i], ids),
                                                      Cardinality(ids)))
                    IN  R[columnCount]

                crossScrollingEnabled ==
                    \/ (IF helper = "VerticalScrollHelper" THEN config.marquee_direction
                        ELSE config.horizontal_marquee_direction) = Str("alter")
                    \/ config.allow_cross_scrolling_animation = Str("1")

                positive == IF helper = "VerticalScrollHelper" THEN "DOWN" ELSE "RIGHT"
                negative == IF helper = "VerticalScrollHelper" THEN "UP" ELSE "LEFT"
            IN
                IF columnCount = 0 THEN [status |-> "UNKNOWN", details |-> << >>]
                ELSE IF columnCount >= 2
                THEN IF Len(colResults) < 2 THEN [status |-> "ERROR", details |-> << >>]
                     ELSE LET dir1 == colResults[1]
                              dir2 == colResults[2]
                              areOpposite == \/ (dir1 = negative /\ dir2 = positive)
                                             \/ (dir1 = positive /\ dir2 = negative)
                          IN  [status |-> IF crossScrollingEnabled
                                          THEN (IF ~areOpposite THEN "FAIL" ELSE "PASS")
                                          ELSE (IF areOpposite THEN "FAIL" ELSE "PASS"),
                               details |-> colResults]
                ELSE [status |-> IF colResults # << >> /\ colResults[1] = "STATIONARY"
                                 THEN "FAIL" ELSE "PASS",
                      details |-> colResults]
    IN
        /\ call.op \in {"VerticalScrollHelper", "HorizontalScrollHelper"} /\ call.pc = "analysis"
        /\ call' = [call EXCEPT
                        !.result = analysis(call.op, call.columnCount, call.initialStates,
                                            call.finalStates, call.config),
                        !.pc = "settled"]
        /\ UNCHANGED <<dom, calls>>

-----------------------------------------------------------------------------
(* FloatingToastHelper.interact: the preview card is looked for, captured   *)
(* and clicked, the expanded review is captured and closed.  Every stage is *)
(* inside one try block.                                                     *)

\* A catch block that returns without the captures collected so far.
toastCatch_dropsCaptures(frame) ==
    [frame EXCEPT !.screenshotBuffers = << >>, !.pc = "lastResort"]

\* The catch block: with no capture yet a last full-page capture is tried,
\* else the captures collected are returned.
toastCatch(frame) ==
    IF frame.screenshotBuffers = << >> THEN [frame EXCEPT !.pc = "lastResort"]
    ELSE [frame EXCEPT !.pc = "settled", !.result = Resolved(frame.screenshotBuffers)]

\* A stage of FloatingToastHelper.interact settles: the look for the preview
\* card, the default capture when there is none, the capture of the preview,
\* the click and the wait for the expanded review, its capture, its closing,
\* and the last-resort capture of the catch block.
ToastStaged ==
    LET
        Return(frame) == [frame EXCEPT !.pc = "settled", !.result = Resolved(frame.screenshotBuffers)]

        Push(frame, shot) == [frame EXCEPT !.screenshotBuffers = Append(@, shot)]

        Entry(op, seen, ok) == Did(op, call.pc, 0, Str(IF seen THEN "visible" ELSE "none"), ok, 0)
    IN
        /\ call.op = "FloatingToastHelper" /\ call.pc # "settled"
        /\ \E ok, seen \in {TRUE, FALSE} :
               /\ dom.closed => ~ok
               /\ seen => ok /\ call.pc \in {"find", "expand"}
               /\ call' =
                      CASE call.pc = "find" ->
                               IF ~ok THEN toastCatch(call)
                               ELSE [call EXCEPT !.pc = IF seen THEN "preview" ELSE "default"]
                        [] call.pc = "default" ->
                               IF ok THEN Return(Push(call, "default")) ELSE toastCatch(call)
                        [] call.pc = "preview" ->
                               IF ok THEN [Push(call, "preview") EXCEPT !.pc = "expand"]
                               ELSE toastCatch(call)
                        [] call.pc = "expand" ->
                               IF ~ok THEN toastCatch(call)
                               ELSE IF seen THEN [call EXCEPT !.pc = "expanded"]
                               ELSE Return(call)
                        [] call.pc = "expanded" ->
                               IF ok THEN [Push(call, "expanded") EXCEPT !.pc = "close"]
                               ELSE toastCatch(call)
                        [] call.pc = "close" -> IF ok THEN Return(call) ELSE toastCatch(call)
                        [] OTHER -> Return(IF ok THEN Push(call, "lastResort") ELSE call)
               /\ calls' = Append(calls,
                                  Entry(CASE call.pc \in {"find", "expand"} -> "isVisible"
                                          [] call.pc = "close" -> "close"
                                          [] OTHER -> "screenshot",
                                        seen, ok))
        /\ UNCHANGED dom

-----------------------------------------------------------------------------
(* AvatarSliderHelper.interact: the avatar controls (or, without any, the   *)
(* navigation arrows) are counted, then clicked one after the other; after  *)
(* each click the review revealed is captured.                               *)

\* The number of captures the loop stops at.
maxScreenshots == 3

\* The number of controls the loop tries at most.
maxSliderAttempts == 10

\* How many controls a slider of the model has at most.
MaxControls == 11

\* A step of AvatarSliderHelper.interact settles: the count of the controls,
\* one iteration of the interaction loop, or the return after the loop.
\* An iteration ends with a rejected click (or any other throw), with a
\* review that stayed empty, with a screenshot that failed, or with the
\* capture of a short review or of one with a Read More button.
SliderStepped ==
    LET
        Return(frame) == [frame EXCEPT !.pc = "settled", !.result = Resolved(frame.screenshotBuffers)]

        Iterated(frame, outcome) ==
            LET pushed == IF outcome \in {"short", "readMore"}
                          THEN Append(frame.screenshotBuffers, frame.i)
                          ELSE frame.screenshotBuffers
                read == frame.hasCapturedReadMore \/ outcome = "readMore"
                break == /\ outcome # "empty"
                         /\ Len(pushed) >= maxScreenshots
                         /\ (read \/ frame.i >= maxSliderAttempts - 1)
            IN  [frame EXCEPT !.screenshotBuffers = pushed, !.hasCapturedReadMore = read,
                              !.i = IF break THEN @ ELSE @ + 1,
                              !.pc = IF break THEN "done" ELSE "loop"]
    IN
        /\ call.op = "AvatarSliderHelper" /\ call.pc # "settled"
        /\ \/ /\ call.pc = "locate"
              /\ \E ok \in {TRUE, FALSE} :
                     /\ dom.closed => ~ok
                     /\ call' = IF ~ok \/ dom.elements = << >> THEN Return(call)
                                ELSE [call EXCEPT !.totalControls = Len(dom.elements),
                                                  !.usingArrows = dom.elements[1] = "arrow",
                                                  !.pc = "loop"]
           \/ /\ call.pc = "loop"
              /\ IF /\ call.i < call.totalControls
                    /\ Len(call.screenshotBuffers) < maxScreenshots
                    /\ call.i < maxSliderAttempts
                 THEN \E outcome \in {"rejected", "empty", "noShot", "short", "readMore"} :
                          /\ dom.closed => outcome = "rejected"
                          /\ call' = Iterated(call, outcome)
                 ELSE call' = [call EXCEPT !.pc = "done"]
           \/ /\ call.pc = "done"
              /\ call' = Return(call)
        /\ UNCHANGED <<dom, calls>>

\* How many avatar candidates a widget of the model has at most.
MaxAvatars == 4

\* How many cards a strip of the model has at most.
MaxCards == 4

\* How many tracks a marquee of the model has at most.
MaxTracks == 2

InitInteract ==
    LET
        \* The page a helper works on: the candidates of its widget, and whether a
        \* review popup is open.
        Widget(elements) ==
            [closed |-> FALSE, closedAt |-> "", popup |-> FALSE, elements |-> elements]

        Lists(variants, max) == UNION {[1..n -> variants] : n \in 0..max}

        \* Avatars: visible without an id, visible with one of two ids, hidden.
        Avatars ==
            {[visible |-> TRUE, feedId |-> Null], [visible |-> TRUE, feedId |-> Str("a")],
             [visible |-> TRUE, feedId |-> Str("b")], [visible |-> FALSE, feedId |-> Str("a")]}

        \* Cards: without an id, with a data-feed-id, with a data-review-id that
        \* equals the data-feed-id of another.
        Cards ==
            {[feedId |-> Null, reviewId |-> Null], [feedId |-> Str("a"), reviewId |-> Null],
             [feedId |-> Str("b"), reviewId |-> Null], [feedId |-> Null, reviewId |-> Str("a")]}

        \* The shifts of the children of a track between the first and the last
        \* sample, in px; Null is a child without a box at the last sample.
        TrackShifts ==
            {<<Num(-5)>>, <<Num(5)>>, <<Num(1)>>, <<Num(-1)>>, <<Num(2)>>, <<Num(1), Num(2)>>,
             <<Num(-5), Num(5)>>, <<Num(-2), Num(-1)>>, <<Null>>}

        initialOf(shifts) == [j \in 1..Len(shifts) |-> Num(100 * j)]

        finalOf(shifts) ==
            [j \in 1..Len(shifts) |->
                IF shifts[j] = Null THEN Null ELSE Num(100 * j + shifts[j].n)]

        Configs ==
            {[marquee_direction |-> m, horizontal_marquee_direction |-> h,
              allow_cross_scrolling_animation |-> a] :
                 m \in {Str("up"), Str("alter")}, h \in {Str("left"), Str("alter")},
                 a \in {Str("0"), Str("1")}}

        \* The frame of the analysis: the tracks counted, the samples (the last
        \* one may have lost its last track) and the configuration.
        MovementFrame(helper, tracks, lost, config) ==
            [op |-> helper, pc |-> "analysis", columnCount |-> Len(tracks),
             initialStates |-> [i \in 1..Len(tracks) |-> initialOf(tracks[i])],
             finalStates |-> [i \in 1..(Len(tracks) - lost) |-> finalOf(tracks[i])],
             config |-> config, result |-> [status |-> "", details |-> << >>]]
    IN
        /\ calls = << >>
        /\ \/ /\ call = [op |-> "AvatarGroupHelper", pc |-> "avatarsOnly",
                         screenshotBuffers |-> << >>, visibleAvatars |-> << >>,
                         indicesToInteract |-> << >>, i |-> 0, result |-> Pending2]
              /\ dom \in {Widget(avatars) : avatars \in Lists(Avatars, MaxAvatars)}
           \/ /\ call = [op |-> "StripSliderHelper", pc |-> "select", targetsToClick |-> << >>]
              /\ dom \in {Widget(cards) : cards \in Lists(Cards, MaxCards)}
           \/ /\ call \in {MovementFrame(helper, tracks, lost, config) :
                               helper \in {"VerticalScrollHelper", "HorizontalScrollHelper"},
                               tracks \in Lists(TrackShifts, MaxTracks),
                               lost \in {0, 1}, config \in Configs}
              /\ call.columnCount > 0 \/ Len(call.finalStates) = 0
              /\ dom = Widget(<< >>)
           \/ /\ call = [op |-> "FloatingToastHelper", pc |-> "find",
                         screenshotBuffers |-> << >>, result |-> Pending2]
              /\ dom = Widget(<< >>)
           \/ /\ call = [op |-> "AvatarSliderHelper", pc |-> "locate", totalControls |-> 0,
                         usingArrows |-> FALSE, hasCapturedReadMore |-> FALSE, i |-> 0,
                         screenshotBuffers |-> << >>, result |-> Pending2]
              /\ dom \in {Widget([j \in 1..n |-> control]) :
                              n \in 0..MaxControls, control \in {"avatar", "arrow"}}

NextInteract ==
    \/ AvatarsOnlyCaptured
    \/ AllSettled
    \/ ResetDone
    \/ Scrolled
    \/ Clicked
    \/ PopupWaited
    \/ Captured
    \/ PopupClosed
    \/ PageClosed
    \/ TargetsSelected
    \/ MovementAnalysed
    \/ ToastStaged
    \/ SliderStepped

SpecInteract == InitInteract /\ [][NextInteract]_vars

-----------------------------------------------------------------------------
(* Claims about the interaction strategies, under SpecInteract.              *)

\* C23 (refuted by the code): an interaction strategy never throws; whatever
\* step fails, interact resolves with the captures collected so far.
C23_StrategyNeverThrows ==
    (call.op = "AvatarGroupHelper" /\ call.pc = "settled") =>
        /\ call.result.settled = "resolved"
        /\ call.result.value = call.screenshotBuffers

\* C26: the verdict of the scroll helpers on tracks that were sampled at the
\* start and at the end follows the displacement rule.  A track is
\* stationary when the average shift of its children is within 1px of zero,
\* else it moves in the positive or the negative direction; with two or more
\* tracks the first two are compared, and the verdict is FAIL when they move
\* in opposite directions although cross-scroll is not expected, or do not
\* move in opposite directions although it is expected; a single stationary
\* track is FAIL; every other case is PASS.  So two tracks at -5 and +5
\* without cross-scroll are FAIL, and two tracks at -5 are PASS.
C26_DisplacementRule ==
    LET compared == IF call.columnCount >= 2 THEN 2 ELSE call.columnCount
        Shift(i, j) == call.finalStates[i][j].n - call.initialStates[i][j].n
        Measured(i) == {j \in 1..Len(call.initialStates[i]) : call.finalStates[i][j] # Null}
        Sum(i) ==
            LET S[j \in 0..Len(call.initialStates[i])] ==
                    IF j = 0 THEN 0
                    ELSE S[j - 1] + (IF j \in Measured(i) THEN Shift(i, j) ELSE 0)
            IN  S[Len(call.initialStates[i])]
        \* |average| <= 1, average > 1, average < -1, without dividing
        Positive(i) == Measured(i) # {} /\ Sum(i) > Cardinality(Measured(i))
        Negative(i) == Measured(i) # {} /\ Sum(i) < -Cardinality(Measured(i))
        Stationary(i) == ~Positive(i) /\ ~Negative(i)
        opposite == (Positive(1) /\ Negative(2)) \/ (Negative(1) /\ Positive(2))
        crossExpected ==
            \/ call.config.allow_cross_scrolling_animation = Str("1")
            \/ call.op = "VerticalScrollHelper" /\ call.config.marquee_direction = Str("alter")
            \/ call.op = "HorizontalScrollHelper"
                   /\ call.config.horizontal_marquee_direction = Str("alter")
        OnlyShifts(i, shifts) ==
            /\ Len(call.initialStates[i]) = Len(shifts)
            /\ \A j \in 1..Len(shifts) : j \in Measured(i) /\ Shift(i, j) = shifts[j]
    IN  (/\ call.op \in {"VerticalScrollHelper", "HorizontalScrollHelper"}
         /\ call.pc = "settled"
         /\ call.columnCount >= 1
         /\ Len(call.finalStates) >= compared)
        => /\ call.result.status =
                  IF call.columnCount >= 2
                  THEN (IF opposite = crossExpected THEN "PASS" ELSE "FAIL")
                  ELSE (IF Stationary(1) THEN "FAIL" ELSE "PASS")
           /\ (call.columnCount = 2 /\ ~crossExpected
                   /\ OnlyShifts(1, <<-5>>) /\ OnlyShifts(2, <<5>>))
              => call.result.status = "FAIL"
           /\ (call.columnCount = 2 /\ ~crossExpected
                   /\ OnlyShifts(1, <<-5>>) /\ OnlyShifts(2, <<-5>>))
              => call.result.status = "PASS"

\* C26, the cases: two tracks at -5 and +5 without cross-scroll, judged FAIL
\* by the vertical helper.
C26_Witness ==
    /\ call.op = "VerticalScrollHelper" /\ call.pc = "settled"
    /\ call.columnCount = 2
    /\ call.config.marquee_direction = Str("up")
    /\ call.config.allow_cross_scrolling_animation = Str("0")
    /\ call.initialStates = <<(<<Num(100)>>), (<<Num(100)>>)>>
    /\ call.finalStates = <<(<<Num(95)>>), (<<Num(105)>>)>>
    /\ call.result.status = "FAIL"

\* C37: the scroll helpers never return PASS when no tracked track moved: if
\* every compared track is stationary (the average shift of its children is
\* within 1px of zero) the verdict is not PASS, for one track or more and for
\* either cross-scroll setting.
C37_StationaryNeverPasses ==
    LET compared == IF call.columnCount >= 2 THEN 2 ELSE call.columnCount
        Measured(i) == {j \in 1..Len(call.initialStates[i]) : call.finalStates[i][j] # Null}
        Sum(i) ==
            LET S[j \in 0..Len(call.initialStates[i])] ==
                    IF j = 0 THEN 0
                    ELSE S[j - 1] + (IF j \in Measured(i)
                                     THEN call.finalStates[i][j].n - call.initialStates[i][j].n
                                     ELSE 0)
            IN  S[Len(call.initialStates[i])]
        Stationary(i) ==
            \/ Measured(i) = {}
            \/ /\ Sum(i) <= Cardinality(Measured(i))
               /\ Sum(i) >= -Cardinality(Measured(i))
    IN  (/\ call.op \in {"VerticalScrollHelper", "HorizontalScrollHelper"}
         /\ call.pc = "settled"
         /\ call.columnCount >= 1
         /\ Len(call.finalStates) >= compared
         /\ \A i \in 1..compared : Stationary(i))
            => call.result.status # "PASS"

\* C27 as stated: AvatarGroupHelper interacts with exactly two avatars, the
\* first and the third of the visible set.
C27_ExactlyTwoAvatars ==
    (call.op = "AvatarGroupHelper" /\ call.pc \notin {"avatarsOnly", "all"}
         /\ call.result.settled # "rejected")
        => call.indicesToInteract = <<0, 2>>

\* C27, amended: the visible set holds, in document order, the visible
\* candidates, where of the candidates that share a data-feed-id only the
\* first is counted and a candidate without the attribute is counted as it
\* comes; the helper interacts with index 0 of that set when there is any and
\* with index 2 when there are at least three, and with no other avatar.
C27_FirstAndThirdOfDeduplicated ==
    (call.op = "AvatarGroupHelper" /\ call.pc \notin {"avatarsOnly", "all"}
         /\ call.result.settled # "rejected")
        => LET all == dom.elements
               Counted(k) ==
                   /\ all[k].visible
                   /\ \/ all[k].feedId = Null
                      \/ \A h \in 1..(k - 1) :
                             ~(all[h].visible /\ all[h].feedId = all[k].feedId)
               kept == {k \in 1..Len(all) : Counted(k)}
               visible == call.visibleAvatars
               Avatar(index) == visible[index + 1]
           IN  /\ Cardinality(kept) <= VisibleCap
                   => /\ {visible[n] : n \in 1..Len(visible)} = kept
                      /\ Len(visible) = Cardinality(kept)
               /\ \A m, n \in 1..Len(visible) : m < n => visible[m] < visible[n]
               /\ call.indicesToInteract =
                      IF Len(visible) >= 3 THEN <<0, 2>>
                      ELSE IF Len(visible) >= 1 THEN <<0>> ELSE << >>
               /\ \A c \in 1..Len(calls) :
                      calls[c].phase \in {"reset", "item"} =>
                          /\ calls[c].target \in {0, 2}
                          /\ calls[c].target < Len(visible)

\* C27, the case: of four candidates the second repeats the id of the first;
\* the helper clicked the first and the fourth, which are the first and the
\* third of the three it counts.
C27_Witness ==
    /\ call.op = "AvatarGroupHelper" /\ call.pc = "settled"
    /\ Len(dom.elements) = 4
    /\ dom.elements[1].feedId = Str("a") /\ dom.elements[2] = dom.elements[1]
    /\ call.visibleAvatars = <<1, 3, 4>>
    /\ \E c, d \in 1..Len(calls) :
           /\ c < d
           /\ calls[c].op = "click" /\ calls[c].target = 0 /\ calls[c].ok
           /\ calls[d].op = "click" /\ calls[d].target = 2 /\ calls[d].ok

\* C29: the steps AvatarGroupHelper takes on an avatar follow the protocol in
\* order: the check for an open popup and its closing, the scroll into view,
\* the click, the bounded wait for the popup, the settle delay, the capture,
\* the click outside, the close button when the click did not close the
\* popup, the wait for the popup to hide, the settle delay.  A capture is
\* preceded by the successful click on its avatar; the steps on the first
\* avatar all precede those on the third; and between the clicks on two
\* avatars the popup was seen closed or a click outside was made.
C29_PerItemProtocol ==
    LET Rank(entry) ==
            CASE entry.phase = "reset" /\ entry.op = "isVisible" -> 1
              [] entry.phase = "reset" /\ entry.op = "clickOutside" -> 2
              [] entry.phase = "reset" /\ entry.op = "closeButton" -> 3
              [] entry.phase = "reset" /\ entry.op = "waitForHidden" -> 4
              [] entry.phase = "item" /\ entry.op = "scrollIntoView" -> 5
              [] entry.phase = "item" /\ entry.op = "click" -> 6
              [] entry.phase = "item" /\ entry.op = "waitForVisible" -> 7
              [] entry.phase = "item" /\ entry.op = "waitForTimeout(1500)" -> 8
              [] entry.phase = "item" /\ entry.op = "capture" -> 9
              [] entry.phase = "item" /\ entry.op = "clickOutside" -> 10
              [] entry.phase = "item" /\ entry.op = "closeButton" -> 11
              [] entry.phase = "item" /\ entry.op = "waitForHidden" -> 12
              [] entry.phase = "item" /\ entry.op = "waitForTimeout(1000)" -> 13
              [] OTHER -> 0
        Steps == {c \in 1..Len(calls) : calls[c].phase \in {"reset", "item"}}
        Clicks == {c \in Steps : calls[c].op = "click"}
    IN  call.op = "AvatarGroupHelper" =>
            /\ \A c \in Steps :
                   /\ Rank(calls[c]) # 0
                   /\ (c + 1) \in Steps =>
                          \/ calls[c].target < calls[c + 1].target
                          \/ /\ calls[c].target = calls[c + 1].target
                             /\ Rank(calls[c]) < Rank(calls[c + 1])
                   /\ calls[c].op = "capture" =>
                          \E k \in Clicks :
                              k < c /\ calls[k].ok /\ calls[k].target = calls[c].target
                   /\ (calls[c].op = "closeButton" /\ calls[c].phase = "item") =>
                          /\ calls[c - 1].op = "clickOutside" /\ ~calls[c - 1].ok
                          /\ \E k \in 1..(c - 1) :
                                 calls[k].op = "capture" /\ calls[k].target = calls[c].target
            /\ \A c, d \in Clicks :
                   c < d =>
                       \E m \in (c + 1)..(d - 1) :
                           \/ calls[m].op = "clickOutside"
                           \/ /\ calls[m].op = "isVisible" /\ calls[m].phase = "reset"
                              /\ calls[m].ok /\ calls[m].type = Str("none")

\* C29, the case: the popup of the first avatar was captured and then closed
\* by the click outside, and the third avatar was clicked and captured.
C29_Witness ==
    /\ call.op = "AvatarGroupHelper" /\ call.pc = "settled"
    /\ call.screenshotBuffers = <<"avatarsOnly", "popup", "popup">>
    /\ \E a \in 1..Len(calls) :
           /\ calls[a].op = "capture" /\ calls[a].target = 0 /\ calls[a].ok
           /\ calls[a + 1].op = "clickOutside" /\ calls[a + 1].target = 0 /\ calls[a + 1].ok
    /\ \E c \in 1..Len(calls) : calls[c].op = "click" /\ calls[c].target = 2 /\ calls[c].ok
    /\ \E d \in 1..Len(calls) : calls[d].op = "capture" /\ calls[d].target = 2 /\ calls[d].ok

\* C30 (refuted by the code): StripSliderHelper selects at most 3 cards, no
\* card twice, and no two cards with the same content identifier
\* (data-feed-id, else data-review-id).
C30_DistinctCards ==
    (call.op = "StripSliderHelper" /\ call.pc = "settled") =>
        LET targets == call.targetsToClick
            IdOf(t) == IF dom.elements[targets[t]].feedId # Null
                       THEN dom.elements[targets[t]].feedId
                       ELSE dom.elements[targets[t]].reviewId
        IN  /\ Len(targets) <= TargetLimit
            /\ \A s, t \in 1..Len(targets) : s # t => targets[s] # targets[t]
            /\ \A s, t \in 1..Len(targets) :
                   (s # t /\ IdOf(s) # Null) => IdOf(s) # IdOf(t)

\* C31 as stated: when a stage of FloatingToastHelper.interact fails the
\* captures collected are returned, and exactly one last-resort full-page
\* capture is returned when none was collected.
C31_AlwaysOneCapture ==
    (call.op = "FloatingToastHelper" /\ call.pc = "settled") =>
        /\ call.result.settled = "resolved"
        /\ call.result.value # << >>
        /\ (\E i \in 1..Len(calls) : ~calls[i].ok /\ calls[i].phase \in {"find", "default", "preview"})
               => call.result.value = << "lastResort" >>

\* C31, amended: FloatingToastHelper.interact never rejects and returns the
\* captures that succeeded, in the order taken: the default capture alone
\* when no preview card is visible, else the preview capture and then the
\* capture of the expanded review.  When a stage fails with no capture
\* collected, one last-resort full-page capture is attempted and is the only
\* capture returned if it succeeds; nothing is returned if it fails too.  The
\* expanded review is captured only after the preview capture succeeded, and
\* it is closed only after its capture succeeded.
C31_CollectedOrLastResort ==
    call.op = "FloatingToastHelper" =>
        LET At(phase) == {i \in 1..Len(calls) : calls[i].phase = phase}
            Taken == SelectSeq(calls, LAMBDA entry : entry.op = "screenshot" /\ entry.ok)
            Failed == {i \in 1..Len(calls) : ~calls[i].ok /\ calls[i].phase # "lastResort"}
        IN  /\ call.screenshotBuffers = [i \in 1..Len(Taken) |-> Taken[i].phase]
            /\ call.screenshotBuffers \in {<< >>, << "default" >>, << "preview" >>,
                                           << "preview", "expanded" >>, << "lastResort" >>}
            /\ \A phase \in {"find", "default", "preview", "expand", "expanded", "close",
                             "lastResort"} : Cardinality(At(phase)) <= 1
            /\ \A i \in At("expanded") :
                   \E j \in At("preview") : j < i /\ calls[j].ok
            /\ \A i \in At("close") :
                   \E j \in At("expanded") : j < i /\ calls[j].ok
            /\ \A i \in At("lastResort") :
                   /\ i = Len(calls)
                   /\ Failed # {}
                   /\ \A j \in 1..(i - 1) : ~(calls[j].op = "screenshot" /\ calls[j].ok)
            /\ call.pc = "settled" =>
                   /\ call.result = Resolved(call.screenshotBuffers)
                   /\ At("lastResort") # {} <=>
                          /\ Failed # {}
                          /\ \A k \in 1..Len(calls) :
                                 (calls[k].op = "screenshot" /\ calls[k].ok)
                                     => calls[k].phase = "lastResort"
                   /\ At("lastResort") # {} =>
                          call.result.value =
                              IF calls[Len(calls)].ok THEN << "lastResort" >> ELSE << >>

\* C31, the cases: the preview was captured and the click opened the review,
\* whose capture failed; interact returned the preview capture alone, and no
\* last-resort capture was taken.
C31_Witness ==
    /\ call.op = "FloatingToastHelper" /\ call.pc = "settled"
    /\ call.result = Resolved(<< "preview" >>)
    /\ Len(calls) = 4
    /\ calls[4].phase = "expanded" /\ ~calls[4].ok
    /\ ~dom.closed

\* C33 (refuted by the code): AvatarSliderHelper.interact returns at least
\* 3 captures of revealed reviews, clicking further controls until that
\* number is reached.
C33_AtLeastThreeCaptures ==
    (call.op = "AvatarSliderHelper" /\ call.pc = "settled")
        => Len(call.screenshotBuffers) >= maxScreenshots

-----------------------------------------------------------------------------
(* Part V: the runners.  The loop over the batch and the attempts on a       *)
(* target, as run() of the daily, the local and the on-demand runner have     *)
(* it; the browser stays up, so newContext, newPage and context.close         *)
(* resolve.  The batch is selected as the daily runner selects it, from the  *)
(* API data and the file of the processed URLs.                               *)

\* const maxUrlAttempts = 3 (maxAttempts in the daily and on-demand runners)
maxUrlAttempts == 3

\* How many targets a batch of the model has at most.
MaxTargets == 2

\* The open contexts after the finally block: context.close().
closeContext_leak(open, context) == open

closeContext(open, context) == open \ {context}

\* parseInt(process.env.DAILY_BATCH_SIZE || '15')
MAX_DAILY_BATCH == 15

InitRun ==
    LET
        Url(k) == "https://example.com/" \o NumToString(k)

        \* The API data: entries with a URL each, or the same with a last entry
        \* that names the URL of the first (two widgets on one page).
        ApiData ==
            UNION {{[k \in 1..n |-> Url(k)], [k \in 1..n |-> Url(IF k = n THEN 1 ELSE k)]} :
                       n \in 0..MaxTargets}

        \* The file of the processed URLs, as earlier runs left it.
        Files == {<< >>, <<Url(1)>>, [k \in 1..MaxTargets |-> Url(k)]}
    IN
        /\ call = [op |-> "run", pc |-> "rotate", i |-> 1, attempt |-> 0, success |-> FALSE,
                   context |-> 0, created |-> 0, open |-> {}, results |-> << >>,
                   lastError |-> ""]
        /\ dom \in {[closed |-> FALSE, allApiData |-> api, processed |-> file,
                      size |-> size, batch |-> << >>] :
                        api \in ApiData, file \in Files, size \in {1, MAX_DAILY_BATCH}}
        /\ calls = << >>

\* The URL rotation of the daily runner: the entries whose URL is not in the
\* file of the processed URLs are pending; when none is, the file is reset
\* and all entries are pending.  The batch is the head of the pending ones.
Rotated ==
    LET processed == dom.processed
        filtered == SelectSeq(dom.allApiData, LAMBDA url : \A k \in 1..Len(processed) : processed[k] # url)
        pending == IF Len(filtered) = 0 THEN dom.allApiData ELSE filtered
        slice(entries, end) == SubSeq(entries, 1, IF end < Len(entries) THEN end ELSE Len(entries))
    IN
        /\ call.op = "run" /\ call.pc = "rotate"
        /\ dom' = [dom EXCEPT !.processed = IF Len(filtered) = 0 THEN << >> ELSE @,
                              !.batch = slice(pending, dom.size)]
        /\ call' = [call EXCEPT !.pc = "while"]
        /\ UNCHANGED calls

\* The test of the while loop: another attempt on the target starts with a
\* new context, page and helper; or the loop is left for the next target, or
\* for the report after the last.
WhileTested ==
    /\ call.op = "run" /\ call.pc = "while"
    /\ IF call.i > Len(dom.batch)
       THEN /\ call' = [call EXCEPT !.pc = "report"]
            /\ calls' = calls
       ELSE IF call.attempt < maxUrlAttempts /\ ~call.success
       THEN /\ call' = [call EXCEPT !.attempt = @ + 1, !.created = @ + 1,
                                    !.context = call.created + 1,
                                    !.open = @ \cup {call.created + 1}, !.pc = "init"]
            /\ calls' = Append(calls, Did("newContext", "attempt", call.i, Num(call.attempt + 1),
                                          TRUE, call.created + 1))
       ELSE /\ call' = [call EXCEPT !.i = @ + 1, !.attempt = 0, !.success = FALSE,
                                    !.lastError = "", !.pc = "while"]
            /\ calls' = calls
    /\ UNCHANGED dom

\* The type is identified and helper.init settles: navigation succeeded, or
\* failed after its retries.
InitSettled ==
    /\ call.op = "run" /\ call.pc = "init"
    /\ \E ok \in {TRUE, FALSE} :
           call' = IF ok THEN [call EXCEPT !.pc = "validate"]
                   ELSE [call EXCEPT !.lastError = "Navigation failed", !.pc = "catch"]
    /\ UNCHANGED <<dom, calls>>

\* helper.validateWithAI settles and the rest of the try block runs: the
\* status is read from aiAnalysis (a TypeError when it is null), the record
\* is pushed, the progress is saved (saveProcessedUrl appends the URL to the
\* file unless it is there; it may throw), success is set.
ValidateSettled ==
    /\ call.op = "run" /\ call.pc = "validate"
    /\ \E outcome \in {Rejected("text is not defined")}
                          \cup {Resolved([aiAnalysis |-> a]) :
                                    a \in {[isNull |-> TRUE, overall_status |-> ""],
                                           [isNull |-> FALSE, overall_status |-> "PASS"]}},
          saved \in {TRUE, FALSE} :
           /\ call' =
               IF outcome.settled = "rejected"
               THEN [call EXCEPT !.lastError = outcome.reason, !.pc = "catch"]
               ELSE IF outcome.value.aiAnalysis.isNull
               THEN [call EXCEPT
                         !.lastError = "Cannot read properties of null (reading 'overall_status')",
                         !.pc = "catch"]
               ELSE LET status == IF outcome.value.aiAnalysis.overall_status # ""
                                  THEN outcome.value.aiAnalysis.overall_status ELSE "UNKNOWN"
                        pushed == [call EXCEPT
                                       !.results = Append(@, [url |-> dom.batch[call.i],
                                                              status |-> status, error |-> "",
                                                              context |-> call.context])]
                    IN  IF saved THEN [pushed EXCEPT !.success = TRUE, !.pc = "finally"]
                        ELSE [pushed EXCEPT !.lastError = "EACCES: permission denied",
                                            !.pc = "catch"]
           /\ dom' = IF /\ call'.success
                        /\ \A k \in 1..Len(dom.processed) : dom.processed[k] # dom.batch[call.i]
                     THEN [dom EXCEPT !.processed = Append(@, dom.batch[call.i])]
                     ELSE dom
    /\ UNCHANGED calls

\* The catch block: after the last attempt the ERROR record is pushed.
AttemptCaught ==
    /\ call.op = "run" /\ call.pc = "catch"
    /\ call' = IF call.attempt >= maxUrlAttempts
               THEN [call EXCEPT !.results = Append(@, [url |-> dom.batch[call.i],
                                                        status |-> "ERROR",
                                                        error |-> call.lastError,
                                                        context |-> call.context]),
                                 !.pc = "finally"]
               ELSE [call EXCEPT !.pc = "finally"]
    /\ UNCHANGED <<dom, calls>>

\* The finally block: the context of the attempt is closed.
ContextClosed ==
    /\ call.op = "run" /\ call.pc = "finally"
    /\ call' = [call EXCEPT !.open = closeContext(@, call.context), !.pc = "while"]
    /\ calls' = Append(calls, Did("close", "attempt", call.i, Num(call.attempt), TRUE,
                                  call.context))
    /\ UNCHANGED dom

NextRun ==
    \/ Rotated
    \/ WhileTested
    \/ InitSettled
    \/ ValidateSettled
    \/ AttemptCaught
    \/ ContextClosed

SpecRun == InitRun /\ [][NextRun]_vars

-----------------------------------------------------------------------------
(* Claims about the runners, under SpecRun.                                   *)

\* C24 (refuted by the code): when the loop over the batch is over, the
\* results hold exactly one record per target, in the order of the batch: of
\* the first attempt that succeeded, or one ERROR record after 3 failed
\* attempts.
C24_OneRecordPerTarget ==
    (call.op = "run" /\ call.pc = "report") =>
        /\ Len(call.results) = Len(dom.batch)
        /\ \A k \in 1..Len(call.results) : call.results[k].url = dom.batch[k]

\* C28: every attempt has a context of its own.  A context is created for
\* each attempt and for no other, it is the only open context while the
\* attempt runs, and it is closed when the attempt ends, whether the record
\* was pushed or the attempt failed: between attempts and after the batch no
\* context is open, and no two attempts, of one target or of two, share one.
C28_ContextPerAttempt ==
    call.op = "run" =>
        LET Created == {c \in 1..Len(calls) : calls[c].op = "newContext"}
            Closed == {c \in 1..Len(calls) : calls[c].op = "close"}
        IN  /\ Cardinality(call.open) <= 1
            /\ call.pc \in {"init", "validate", "catch", "finally"}
                   => /\ call.open = {call.context}
                      /\ calls[Len(calls)].op = "newContext"
                      /\ calls[Len(calls)].images = call.context
                      /\ calls[Len(calls)].target = call.i
                      /\ calls[Len(calls)].type = Num(call.attempt)
            /\ call.pc \in {"while", "report"}
                   => /\ call.open = {}
                      /\ Cardinality(Closed) = Cardinality(Created)
            /\ \A c, d \in Created : c # d => calls[c].images # calls[d].images
            /\ \A c \in Created :
                   (c + 1) \in 1..Len(calls) =>
                       /\ calls[c + 1].op = "close"
                       /\ calls[c + 1].images = calls[c].images
            /\ \A k \in 1..Len(call.results) :
                   \E c \in Created :
                       /\ calls[c].images = call.results[k].context
                       /\ dom.batch[calls[c].target] = call.results[k].url

\* C28, the case: a target failed twice and succeeded at the third attempt,
\* the next target succeeded at once; four contexts were created and closed.
C28_Witness ==
    /\ call.op = "run" /\ call.pc = "report"
    /\ Len(dom.batch) = 2
    /\ Len(calls) = 8
    /\ call.created = 4 /\ call.open = {}
    /\ calls[5].op = "newContext" /\ calls[5].target = 1 /\ calls[5].type = Num(3)
    /\ calls[7].op = "newContext" /\ calls[7].target = 2 /\ calls[7].type = Num(1)
    /\ Len(call.results) = 2
    /\ call.results[1].status = "PASS" /\ call.results[1].context = 3
    /\ call.results[2].context = 4

\* C40 (refuted by the code): in the daily runner a URL is added to the
\* processed list only by the attempt that has just pushed a validation
\* record for it and succeeded; the list is emptied only by the rotation
\* step, when no URL of the API data is pending; and when the batch is over,
\* the URL of a target that ended with the ERROR record of 3 failed attempts
\* is not in the processed list, so it is pending for the next run.
C40_ErrorTargetStaysPending ==
    [][call.op = "run" =>
           LET In(file, url) == \E k \in 1..Len(file) : file[k] = url
               last == call'.results[Len(call'.results)]
           IN  /\ dom'.processed # dom.processed =>
                      \/ /\ call.pc = "rotate"
                         /\ dom'.processed = << >>
                         /\ \A k \in 1..Len(dom.allApiData) :
                                In(dom.processed, dom.allApiData[k])
                      \/ /\ call.pc = "validate" /\ call'.success
                         /\ dom'.processed = Append(dom.processed, dom.batch[call.i])
                         /\ Len(call'.results) = Len(call.results) + 1
                         /\ last.url = dom.batch[call.i]
                         /\ last.error = ""
               /\ call'.pc = "report" =>
                      \A k \in 1..Len(call'.results) :
                          (call'.results[k].status = "ERROR" /\ call'.results[k].error # "")
                              => ~In(dom'.processed, call'.results[k].url)]_vars

====
